---- MODULE Spec2Model ----
(***************************************************************************)
(* A model of the projection engine of src/src/utils/calculations.ts (the  *)
(* second, retirement-aware definition that starts at line 308):           *)
(* calculateMonthlyCompoundInterest, calculatePredictableTestResult,       *)
(* calculateSequenceRisk, calculateRetirementPhase and                     *)
(* calculateRetirementSuccessRate.                                         *)
(*                                                                         *)
(* Numbers.  The code computes in IEEE doubles; the model computes in      *)
(* fixed point.  Money is an integer number of cents, a percentage is an   *)
(* integer number of percent, a monthly rate is an integer number of       *)
(* 1/RateDen, and a product with a fraction n/d is rounded down            *)
(* (MulDiv).  Math.pow(1 + p/100, n) is applied as n successive            *)
(* multiplications (or divisions) by (100 + p)/100.  Math.random() is a    *)
(* nondeterministic choice among the values of DrawSet (hundredths).       *)
(***************************************************************************)
EXTENDS Integers, Sequences, FiniteSets, TLC

VARIABLES
    inputs,   \* the CalculatorInputs of the call
    pc,       \* the place the call has reached
    acc,      \* locals of calculateMonthlyCompoundInterest's year/month loop
    twin,     \* a second run of the same loop (SpecPair only)
    ret,      \* locals of calculateRetirementPhase
    mc,       \* locals of the Monte Carlo loops
    res,      \* the CalculatorResults being built
    shocks    \* number of draws so far that were not the neutral 0.5

vars == <<inputs, pc, acc, twin, ret, mc, res, shocks>>

----------------------------------------------------------------------------
(* Bounds of the model *)

MaxHorizon == 2          \* investmentHorizon ranges over 1..MaxHorizon
MaxRetirementYears == 2  \* retirementYears ranges over 1..MaxRetirementYears
MaxShocks == 1           \* draws other than 0.5 in one behaviour
simulations == 2         \* trials of a Monte Carlo loop (the code runs 1000)

----------------------------------------------------------------------------
(* Fixed-point arithmetic *)

\* floor(a * n / d) without leaving 32 bits: a = d*(a \div d) + a % d
MulDiv(a, n, d) == (a \div d) * n + ((a % d) * n) \div d

\* a * (p / 100)
Pct(a, p) == MulDiv(a, p, 100)

Min(a, b) == IF a <= b THEN a ELSE b

\* a * Math.pow(1 + p / 100, n)
RECURSIVE TimesPow(_, _, _)
TimesPow(a, p, n) ==
    IF n <= 0 THEN a ELSE TimesPow(MulDiv(a, 100 + p, 100), p, n - 1)

\* a / Math.pow(1 + p / 100, n)
RECURSIVE OverPow(_, _, _)
OverPow(a, p, n) ==
    IF n <= 0 THEN a ELSE OverPow(MulDiv(a, 100, 100 + p), p, n - 1)

\* monthly rates are counted in 1/RateDen: x / 12 / 100 is x * 100 / RateDen
RateDen == 12 * 100 * 100

\* Math.sqrt(12) in ten-thousandths
Sqrt12 == 34641

\* the values Math.random() takes in the model, in hundredths
DrawSet == {0, 50, 99}
Neutral == 50

\* absent optional field (withdrawalStartYear ?? ..., retirementReturn !== undefined)
Undefined == 0 - 1

\* what a division by zero gives: x / 0 for x > 0, and 0 / 0
Infinity == 1000000000
NotANumber == 0 - 1000000000

\* Math.floor(a / b) for a >= 0 and b >= 0
FloorQuotient(a, b) ==
    IF b = 0 THEN (IF a = 0 THEN NotANumber ELSE Infinity) ELSE a \div b

----------------------------------------------------------------------------
(* CalculatorInputs (src/unnamed/part_004): the inputs the model explores *)

AccountTypes == {"taxable", "tax-deferred", "tax-free", "mixed"}

NoTax == [income |-> 0, dividends |-> 0, capitalGains |-> 0]
SomeTax == [income |-> 25, dividends |-> 15, capitalGains |-> 15]
NoFees == [expenseRatio |-> 0, advisoryFee |-> 0]
SomeFees == [expenseRatio |-> 1, advisoryFee |-> 2]

\* inflationRate, taxRate and fees vary together
CostProfiles ==
    { [inflationRate |-> 0, taxRate |-> NoTax, fees |-> NoFees],
      [inflationRate |-> 0, taxRate |-> SomeTax, fees |-> NoFees],
      [inflationRate |-> 5, taxRate |-> SomeTax, fees |-> SomeFees] }

NoRetirement ==
    [enabled |-> FALSE, annualWithdrawal |-> 0, withdrawalStartYear |-> Undefined,
     withdrawalAdjustForInflation |-> TRUE, retirementYears |-> 1,
     retirementReturn |-> 0]

RetirementPhases ==
    [enabled : {TRUE},
     annualWithdrawal : {360000, 2400000},
     withdrawalStartYear : {Undefined} \cup 0..(MaxHorizon - 1),
     withdrawalAdjustForInflation : BOOLEAN,
     retirementYears : 1..MaxRetirementYears,
     retirementReturn : {0 - 50, 0, 12}]

MkInputs(base, cost, type, rp) ==
    [initialInvestment |-> base.initialInvestment,
     monthlyContribution |-> base.monthlyContribution,
     annualContributionIncrease |-> base.annualContributionIncrease,
     investmentHorizon |-> base.investmentHorizon,
     expectedAnnualReturn |-> base.expectedAnnualReturn,
     returnVolatility |-> base.returnVolatility,
     inflationRate |-> cost.inflationRate,
     taxRate |-> cost.taxRate,
     fees |-> cost.fees,
     accountType |-> type,
     accountAllocation |-> [taxDeferred |-> 50, taxFree |-> 50],
     retirementPhase |-> rp]

\* zero volatility, no retirement phase
PlainInputs ==
    { MkInputs(b, c, t, NoRetirement) :
        b \in [initialInvestment : {0, 100000}, monthlyContribution : {0, 10000},
               annualContributionIncrease : {0, 50},
               investmentHorizon : 1..MaxHorizon,
               expectedAnnualReturn : {0, 12}, returnVolatility : {0}],
        c \in CostProfiles, t \in AccountTypes }

\* zero volatility, retirement phase enabled
RetirementInputs ==
    { MkInputs(b, c, t, rp) :
        b \in [initialInvestment : {100000}, monthlyContribution : {10000},
               annualContributionIncrease : {0},
               investmentHorizon : 1..MaxHorizon,
               expectedAnnualReturn : {12}, returnVolatility : {0}],
        c \in CostProfiles, t \in AccountTypes, rp \in RetirementPhases }

\* volatile returns
VolatileInputs ==
    { MkInputs(b, c, t, rp) :
        b \in [initialInvestment : {100000}, monthlyContribution : {10000},
               annualContributionIncrease : {0},
               investmentHorizon : {1},
               expectedAnnualReturn : {12}, returnVolatility : {12}],
        c \in {x \in CostProfiles : x.inflationRate > 0},
        t \in {"taxable", "mixed"},
        rp \in {NoRetirement} \cup
               {x \in RetirementPhases :
                    /\ x.withdrawalStartYear \in {Undefined, 0}
                    /\ x.withdrawalAdjustForInflation
                    /\ x.retirementReturn = 12
                    /\ x.retirementYears = MaxRetirementYears} }

\* a mixed account whose two percentages do not add up to 100
UnevenInputs ==
    { [i EXCEPT !.accountAllocation = [taxDeferred |-> 70, taxFree |-> 20]] :
        i \in {x \in PlainInputs :
                   /\ x.accountType = "mixed"
                   /\ x.initialInvestment > 0
                   /\ x.monthlyContribution > 0
                   /\ x.annualContributionIncrease = 0
                   /\ x.expectedAnnualReturn > 0} }

\* volatile returns over the longest horizon, withdrawals starting in year 0
LongVolatileInputs ==
    { MkInputs(b, c, "tax-deferred", rp) :
        b \in [initialInvestment : {100000}, monthlyContribution : {10000},
               annualContributionIncrease : {0},
               investmentHorizon : {MaxHorizon},
               expectedAnnualReturn : {12}, returnVolatility : {12}],
        c \in {x \in CostProfiles : x.taxRate = NoTax},
        rp \in {x \in RetirementPhases :
                    /\ x.annualWithdrawal = 360000
                    /\ x.withdrawalStartYear = 0
                    /\ ~x.withdrawalAdjustForInflation
                    /\ x.retirementReturn = 12
                    /\ x.retirementYears = 1} }

InputSpace ==
    PlainInputs \cup RetirementInputs \cup VolatileInputs \cup UnevenInputs
        \cup LongVolatileInputs

----------------------------------------------------------------------------
(* The account ledger: three balances *)

Total(bal) == bal.td + bal.tf + bal.tx

\* calculations.ts 348-358 and 1024-1034: the opening balances by account type
InitialBalances(accountType, accountAllocation, amount) ==
    [td |-> IF accountType = "tax-free" THEN 0
            ELSE IF accountType = "mixed"
                 THEN Pct(amount, accountAllocation.taxDeferred) ELSE amount,
     tf |-> IF accountType \in {"tax-deferred", "taxable"} THEN 0
            ELSE IF accountType = "mixed"
                 THEN Pct(amount, accountAllocation.taxFree) ELSE amount,
     tx |-> IF accountType = "taxable" THEN amount ELSE 0]

\* calculations.ts 415-431: the split of one monthly contribution
ContributionSplit(accountType, accountAllocation, c) ==
    [td |-> IF accountType = "tax-deferred" THEN c
            ELSE IF accountType = "mixed"
                 THEN Pct(c, accountAllocation.taxDeferred) ELSE 0,
     tf |-> IF accountType = "tax-free" THEN c
            ELSE IF accountType = "mixed"
                 THEN Pct(c, accountAllocation.taxFree) ELSE 0,
     tx |-> IF accountType = "taxable" THEN c ELSE 0]

NoWithdrawal ==
    [valid |-> FALSE, need |-> 0,
     before |-> [td |-> 0, tf |-> 0, tx |-> 0],
     after |-> [td |-> 0, tf |-> 0, tx |-> 0],
     drawnTaxable |-> 0, drawnTaxFree |-> 0, drawnTaxDeferred |-> 0,
     capitalGainsTax |-> 0, incomeTax |-> 0,
     remainingWithdrawal |-> 0, recorded |-> 0]

\* Variant of Withdraw that charges income tax on what is drawn from the tax-free
\* balance as well: the tax-free account stops being free of tax.
Withdraw_TaxEveryDraw(bal, need, taxRate) ==
    LET w1 == IF bal.tx > 0 THEN Min(need, bal.tx) ELSE 0
        r1 == need - w1
        w2 == IF r1 > 0 /\ bal.tf > 0 THEN Min(r1, bal.tf) ELSE 0
        r2 == r1 - w2
        w3 == IF r2 > 0 /\ bal.td > 0 THEN Min(r2, bal.td) ELSE 0
        r3 == r2 - w3
    IN  [valid |-> TRUE, need |-> need, before |-> bal,
         after |-> [td |-> bal.td - w3, tf |-> bal.tf - w2, tx |-> bal.tx - w1],
         drawnTaxable |-> w1, drawnTaxFree |-> w2, drawnTaxDeferred |-> w3,
         capitalGainsTax |-> Pct(MulDiv(w1, 5, 10), taxRate.capitalGains),
         incomeTax |-> Pct(w2 + w3, taxRate.income),
         remainingWithdrawal |-> r3,
         recorded |-> (w1 + w2 + w3) - (IF r3 > 0 THEN r3 ELSE 0)]

\* Variant of Withdraw that drains in the opposite order: tax-deferred first, then
\* tax-free, then taxable.
Withdraw_DeferredFirst(bal, need, taxRate) ==
    LET w3 == IF bal.td > 0 THEN Min(need, bal.td) ELSE 0
        r1 == need - w3
        w2 == IF r1 > 0 /\ bal.tf > 0 THEN Min(r1, bal.tf) ELSE 0
        r2 == r1 - w2
        w1 == IF r2 > 0 /\ bal.tx > 0 THEN Min(r2, bal.tx) ELSE 0
        r3 == r2 - w1
    IN  [valid |-> TRUE, need |-> need, before |-> bal,
         after |-> [td |-> bal.td - w3, tf |-> bal.tf - w2, tx |-> bal.tx - w1],
         drawnTaxable |-> w1, drawnTaxFree |-> w2, drawnTaxDeferred |-> w3,
         capitalGainsTax |-> Pct(MulDiv(w1, 5, 10), taxRate.capitalGains),
         incomeTax |-> Pct(w3, taxRate.income),
         remainingWithdrawal |-> r3,
         recorded |-> (w1 + w2 + w3) - (IF r3 > 0 THEN r3 ELSE 0)]

\* Variant of Withdraw without the Math.min clamp: the first account that holds
\* anything is debited by the whole remaining need.
Withdraw_Unclamped(bal, need, taxRate) ==
    LET w1 == IF bal.tx > 0 THEN need ELSE 0
        r1 == need - w1
        w2 == IF r1 > 0 /\ bal.tf > 0 THEN r1 ELSE 0
        r2 == r1 - w2
        w3 == IF r2 > 0 /\ bal.td > 0 THEN r2 ELSE 0
        r3 == r2 - w3
    IN  [valid |-> TRUE, need |-> need, before |-> bal,
         after |-> [td |-> bal.td - w3, tf |-> bal.tf - w2, tx |-> bal.tx - w1],
         drawnTaxable |-> w1, drawnTaxFree |-> w2, drawnTaxDeferred |-> w3,
         capitalGainsTax |-> Pct(MulDiv(w1, 5, 10), taxRate.capitalGains),
         incomeTax |-> Pct(w3, taxRate.income),
         remainingWithdrawal |-> r3,
         recorded |-> (w1 + w2 + w3) - (IF r3 > 0 THEN r3 ELSE 0)]

\* Variant of Withdraw that taxes the amount asked of an account instead of the
\* amount the account could give.
Withdraw_TaxOnNeed(bal, need, taxRate) ==
    LET w1 == IF bal.tx > 0 THEN Min(need, bal.tx) ELSE 0
        r1 == need - w1
        w2 == IF r1 > 0 /\ bal.tf > 0 THEN Min(r1, bal.tf) ELSE 0
        r2 == r1 - w2
        w3 == IF r2 > 0 /\ bal.td > 0 THEN Min(r2, bal.td) ELSE 0
        r3 == r2 - w3
    IN  [valid |-> TRUE, need |-> need, before |-> bal,
         after |-> [td |-> bal.td - w3, tf |-> bal.tf - w2, tx |-> bal.tx - w1],
         drawnTaxable |-> w1, drawnTaxFree |-> w2, drawnTaxDeferred |-> w3,
         capitalGainsTax |->
             IF bal.tx > 0 THEN Pct(MulDiv(need, 5, 10), taxRate.capitalGains) ELSE 0,
         incomeTax |->
             IF r2 > 0 /\ bal.td > 0 THEN Pct(r2, taxRate.income) ELSE 0,
         remainingWithdrawal |-> r3,
         recorded |-> (w1 + w2 + w3) - (IF r3 > 0 THEN r3 ELSE 0)]

\* calculations.ts 441-488 and 1109-1151: one month's withdrawal of `need`
Withdraw(bal, need, taxRate) ==
    LET w1 == IF bal.tx > 0 THEN Min(need, bal.tx) ELSE 0
        estimatedGain == MulDiv(w1, 5, 10)
        capitalGainsTax == Pct(estimatedGain, taxRate.capitalGains)
        r1 == need - w1
        w2 == IF r1 > 0 /\ bal.tf > 0 THEN Min(r1, bal.tf) ELSE 0
        r2 == r1 - w2
        w3 == IF r2 > 0 /\ bal.td > 0 THEN Min(r2, bal.td) ELSE 0
        incomeTax == Pct(w3, taxRate.income)
        r3 == r2 - w3
    IN  [valid |-> TRUE, need |-> need, before |-> bal,
         after |-> [td |-> bal.td - w3, tf |-> bal.tf - w2, tx |-> bal.tx - w1],
         drawnTaxable |-> w1, drawnTaxFree |-> w2, drawnTaxDeferred |-> w3,
         capitalGainsTax |-> capitalGainsTax, incomeTax |-> incomeTax,
         remainingWithdrawal |-> r3,
         recorded |-> (w1 + w2 + w3) - (IF r3 > 0 THEN r3 ELSE 0)]

\* x / 12 / 100 as a number of 1/RateDen
MonthlyRate(x) == x * 100

\* calculations.ts 493-500: ((Math.random() - 0.5) * volatility) / Math.sqrt(12) / 100,
\* doubled when the second draw is below 0.05
ReturnModifier(volatility, u, extreme) ==
    LET m == ((u - Neutral) * volatility * Sqrt12) \div 10000
    IN  IF extreme THEN m * 2 ELSE m

\* Variant of MonthlyReturn whose random part has a spread of its own, whatever
\* returnVolatility is.
MonthlyReturn_OwnSpread(inp, u, extreme) ==
    MonthlyRate(inp.expectedAnnualReturn) + ReturnModifier(15, u, extreme)

\* monthlyReturn = monthlyRate + monthlyReturnModifier (367, 493-502)
MonthlyReturn(inp, u, extreme) ==
    MonthlyRate(inp.expectedAnnualReturn)
    + ReturnModifier(inp.returnVolatility, u, extreme)

\* Variant of Grow that adds the earnings first and takes the fee from the grown
\* balance.
Grow_FeeOnGrownBalance(bal, monthlyReturn, fees, taxRate) ==
    LET feeRate == MonthlyRate(fees.expenseRatio) + MonthlyRate(fees.advisoryFee)
        earningsTaxDeferred == MulDiv(bal.td, monthlyReturn, RateDen)
        earningsTaxFree == MulDiv(bal.tf, monthlyReturn, RateDen)
        earningsTaxable == MulDiv(bal.tx, monthlyReturn, RateDen)
        feeTaxDeferred == MulDiv(bal.td + earningsTaxDeferred, feeRate, RateDen)
        feeTaxFree == MulDiv(bal.tf + earningsTaxFree, feeRate, RateDen)
        feeTaxable == MulDiv(bal.tx + earningsTaxable, feeRate, RateDen)
        dividendPortion == MulDiv(earningsTaxable, 4, 10)
        monthlyTaxes == IF bal.tx - feeTaxable > 0
                        THEN Pct(dividendPortion, taxRate.dividends) ELSE 0
    IN  [bal |-> [td |-> bal.td - feeTaxDeferred + earningsTaxDeferred,
                  tf |-> bal.tf - feeTaxFree + earningsTaxFree,
                  tx |-> bal.tx - feeTaxable - monthlyTaxes + earningsTaxable],
         earnings |-> earningsTaxDeferred + earningsTaxFree + earningsTaxable,
         fees |-> feeTaxDeferred + feeTaxFree + feeTaxable,
         taxes |-> monthlyTaxes]

\* Variant of Grow that never charges the monthly dividend tax on the taxable
\* balance.
Grow_NoDividendTax(bal, monthlyReturn, fees, taxRate) ==
    LET feeRate == MonthlyRate(fees.expenseRatio) + MonthlyRate(fees.advisoryFee)
        earningsTaxDeferred == MulDiv(bal.td, monthlyReturn, RateDen)
        earningsTaxFree == MulDiv(bal.tf, monthlyReturn, RateDen)
        earningsTaxable == MulDiv(bal.tx, monthlyReturn, RateDen)
        feeTaxDeferred == MulDiv(bal.td, feeRate, RateDen)
        feeTaxFree == MulDiv(bal.tf, feeRate, RateDen)
        feeTaxable == MulDiv(bal.tx, feeRate, RateDen)
    IN  [bal |-> [td |-> bal.td - feeTaxDeferred + earningsTaxDeferred,
                  tf |-> bal.tf - feeTaxFree + earningsTaxFree,
                  tx |-> bal.tx - feeTaxable + earningsTaxable],
         earnings |-> earningsTaxDeferred + earningsTaxFree + earningsTaxable,
         fees |-> feeTaxDeferred + feeTaxFree + feeTaxable,
         taxes |-> 0]

\* calculations.ts 504-539 and 1170-1205: earnings, fees, dividend tax, growth
Grow(bal, monthlyReturn, fees, taxRate) ==
    LET feeRate == MonthlyRate(fees.expenseRatio) + MonthlyRate(fees.advisoryFee)
        earningsTaxDeferred == MulDiv(bal.td, monthlyReturn, RateDen)
        earningsTaxFree == MulDiv(bal.tf, monthlyReturn, RateDen)
        earningsTaxable == MulDiv(bal.tx, monthlyReturn, RateDen)
        feeTaxDeferred == MulDiv(bal.td, feeRate, RateDen)
        feeTaxFree == MulDiv(bal.tf, feeRate, RateDen)
        feeTaxable == MulDiv(bal.tx, feeRate, RateDen)
        dividendPortion == MulDiv(earningsTaxable, 4, 10)
        monthlyTaxes == IF bal.tx - feeTaxable > 0
                        THEN Pct(dividendPortion, taxRate.dividends) ELSE 0
    IN  [bal |-> [td |-> bal.td - feeTaxDeferred + earningsTaxDeferred,
                  tf |-> bal.tf - feeTaxFree + earningsTaxFree,
                  tx |-> bal.tx - feeTaxable - monthlyTaxes + earningsTaxable],
         earnings |-> earningsTaxDeferred + earningsTaxFree + earningsTaxable,
         fees |-> feeTaxDeferred + feeTaxFree + feeTaxable,
         taxes |-> monthlyTaxes]

----------------------------------------------------------------------------
(* calculateMonthlyCompoundInterest: the year/month loop, lines 347-594 *)

\* retirementPhase.withdrawalStartYear ?? investmentHorizon (389-390)
WithdrawalStartYear(inp) ==
    IF inp.retirementPhase.withdrawalStartYear = Undefined
    THEN inp.investmentHorizon
    ELSE inp.retirementPhase.withdrawalStartYear

\* Variant of IsWithdrawalPhase that starts the withdrawal phase a year late.
IsWithdrawalPhase_YearLate(inp, year) ==
    inp.retirementPhase.enabled /\ year > WithdrawalStartYear(inp)

\* retirementPhase.enabled && year >= withdrawalStartYear (391-392)
IsWithdrawalPhase(inp, year) ==
    inp.retirementPhase.enabled /\ year >= WithdrawalStartYear(inp)

\* Variant of IsPredictable that never takes the closed-form branch.
IsPredictable_Never(inp) == inp.investmentHorizon < 0

\* the guard of the closed-form branch (328-337)
IsPredictable(inp) ==
    /\ inp.returnVolatility = 0
    /\ inp.investmentHorizon <= 1
    /\ inp.inflationRate = 0
    /\ inp.fees.expenseRatio = 0
    /\ inp.fees.advisoryFee = 0
    /\ inp.taxRate.income = 0
    /\ inp.taxRate.dividends = 0
    /\ inp.taxRate.capitalGains = 0

\* the locals as the loop is entered (347-365); `wd` is the last withdrawal step,
\* `applied` the sum of the contributions added to the three balances (434-436)
\* and `depletedYear` the first year in which a withdrawal left a shortfall
AccBegin(inp) ==
    [year |-> 0, month |-> 1,
     bal |-> InitialBalances(inp.accountType, inp.accountAllocation,
                             inp.initialInvestment),
     totalContributions |-> inp.initialInvestment,
     totalWithdrawals |-> 0,
     totalTaxesPaid |-> 0,
     yearStartBalance |-> 0,
     yearContributions |-> 0, yearWithdrawals |-> 0, yearWithdrawalTaxes |-> 0,
     yearEarnings |-> 0, yearFees |-> 0, yearTaxes |-> 0,
     yearByYearDetails |-> << >>,
     wd |-> NoWithdrawal,
     applied |-> 0, depletedYear |-> Undefined]

\* one pass of the month loop (407-566); in month 1 the year's locals are set
\* first (369-404), after month 12 the year's row is pushed (568-593)
AccMonthStep(inp, a, u, extreme) ==
    LET rp == inp.retirementPhase
        first == a.month = 1
        yearStartBalance == IF first THEN Total(a.bal) ELSE a.yearStartBalance
        yc0 == IF first THEN 0 ELSE a.yearContributions
        yw0 == IF first THEN 0 ELSE a.yearWithdrawals
        ywt0 == IF first THEN 0 ELSE a.yearWithdrawalTaxes
        ye0 == IF first THEN 0 ELSE a.yearEarnings
        yf0 == IF first THEN 0 ELSE a.yearFees
        yt0 == IF first THEN 0 ELSE a.yearTaxes
        withdrawalStartYear == WithdrawalStartYear(inp)
        isWithdrawalPhase == IsWithdrawalPhase(inp, a.year)
        annualWithdrawal ==
            IF ~isWithdrawalPhase THEN 0
            ELSE IF rp.withdrawalAdjustForInflation
                 THEN TimesPow(rp.annualWithdrawal, inp.inflationRate,
                               a.year - withdrawalStartYear)
                 ELSE rp.annualWithdrawal
        monthlyWithdrawal == IF isWithdrawalPhase THEN annualWithdrawal \div 12 ELSE 0
        currentMonthlyContribution ==
            TimesPow(inp.monthlyContribution, inp.annualContributionIncrease, a.year)
        split == ContributionSplit(inp.accountType, inp.accountAllocation,
                                   currentMonthlyContribution)
        w == IF isWithdrawalPhase /\ monthlyWithdrawal > 0
             THEN Withdraw(a.bal, monthlyWithdrawal, inp.taxRate)
             ELSE NoWithdrawal
        bal1 == IF ~isWithdrawalPhase
                THEN [td |-> a.bal.td + split.td, tf |-> a.bal.tf + split.tf,
                      tx |-> a.bal.tx + split.tx]
                ELSE IF w.valid THEN w.after ELSE a.bal
        yc1 == IF ~isWithdrawalPhase THEN yc0 + currentMonthlyContribution ELSE yc0
        monthlyReturn == MonthlyReturn(inp, u, extreme)
        g == Grow(bal1, monthlyReturn, inp.fees, inp.taxRate)
        yw1 == yw0 + w.recorded
        ywt1 == ywt0 + w.capitalGainsTax + w.incomeTax
        ye1 == ye0 + g.earnings
        yf1 == yf0 + g.fees
        yt1 == yt0 + g.taxes
        taxes1 == a.totalTaxesPaid + w.capitalGainsTax + w.incomeTax + g.taxes
        last == a.month = 12
        row == [year |-> a.year,
                startingBalance |-> yearStartBalance,
                contributions |-> yc1,
                withdrawals |-> yw1,
                withdrawalTaxes |-> ywt1,
                earnings |-> ye1,
                fees |-> yf1,
                taxes |-> yt1 + ywt1,
                endingBalance |-> Total(g.bal),
                inflationAdjustedValue |->
                    OverPow(Total(g.bal), inp.inflationRate, a.year)]
    IN  [year |-> IF last THEN a.year + 1 ELSE a.year,
         month |-> IF last THEN 1 ELSE a.month + 1,
         bal |-> g.bal,
         totalContributions |->
             IF last THEN a.totalContributions + yc1 ELSE a.totalContributions,
         totalWithdrawals |->
             IF last THEN a.totalWithdrawals + yw1 ELSE a.totalWithdrawals,
         totalTaxesPaid |-> taxes1,
         yearStartBalance |-> yearStartBalance,
         yearContributions |-> yc1, yearWithdrawals |-> yw1,
         yearWithdrawalTaxes |-> ywt1,
         yearEarnings |-> ye1, yearFees |-> yf1, yearTaxes |-> yt1,
         yearByYearDetails |->
             IF last THEN Append(a.yearByYearDetails, row) ELSE a.yearByYearDetails,
         wd |-> w,
         applied |-> IF isWithdrawalPhase THEN a.applied ELSE a.applied + Total(split),
         depletedYear |->
             IF a.depletedYear = Undefined /\ w.valid /\ w.remainingWithdrawal > 0
             THEN a.year ELSE a.depletedYear]

----------------------------------------------------------------------------
(* calculatePredictableTestResult, lines 662-790 *)

SeedRow(inp) ==
    [year |-> 0, startingBalance |-> inp.initialInvestment, contributions |-> 0,
     withdrawals |-> 0, withdrawalTaxes |-> 0, earnings |-> 0, fees |-> 0,
     taxes |-> 0, endingBalance |-> inp.initialInvestment,
     inflationAdjustedValue |-> inp.initialInvestment]

One == [num |-> 1, den |-> 1]

calculatePredictableTestResult(inp) ==
    IF inp.monthlyContribution = 0
    THEN LET finalBalance == TimesPow(inp.initialInvestment, inp.expectedAnnualReturn,
                                      inp.investmentHorizon)
         IN  [summary |->
                 [finalBalance |-> finalBalance,
                  totalContributions |-> inp.initialInvestment,
                  totalGrowth |-> finalBalance - inp.initialInvestment,
                  inflationAdjustedValue |-> finalBalance,
                  totalWithdrawals |-> 0,
                  totalTaxesPaid |-> 0],
              probabilityMetrics |->
                 [median |-> finalBalance, upperBound |-> finalBalance,
                  lowerBound |-> finalBalance, worstCaseBalance |-> finalBalance,
                  successRate |-> One],
              yearByYearDetails |->
                 << SeedRow(inp),
                    [year |-> 1, startingBalance |-> inp.initialInvestment,
                     contributions |-> 0, withdrawals |-> 0, withdrawalTaxes |-> 0,
                     earnings |-> finalBalance - inp.initialInvestment,
                     fees |-> 0, taxes |-> 0, endingBalance |-> finalBalance,
                     inflationAdjustedValue |-> finalBalance] >>]
    ELSE LET yearlyContribution == inp.monthlyContribution * 12
             finalBalance == Pct(inp.initialInvestment, 100 + inp.expectedAnnualReturn)
                             + yearlyContribution
         IN  [summary |->
                 [finalBalance |-> finalBalance,
                  totalContributions |-> inp.initialInvestment + yearlyContribution,
                  totalGrowth |->
                      finalBalance - (inp.initialInvestment + yearlyContribution),
                  inflationAdjustedValue |-> finalBalance,
                  totalWithdrawals |-> 0,
                  totalTaxesPaid |-> 0],
              probabilityMetrics |->
                 [median |-> finalBalance, upperBound |-> finalBalance,
                  lowerBound |-> finalBalance, worstCaseBalance |-> finalBalance,
                  successRate |-> One],
              yearByYearDetails |->
                 << SeedRow(inp),
                    [year |-> 1, startingBalance |-> inp.initialInvestment,
                     contributions |-> yearlyContribution, withdrawals |-> 0,
                     withdrawalTaxes |-> 0,
                     earnings |-> Pct(inp.initialInvestment, inp.expectedAnnualReturn),
                     fees |-> 0, taxes |-> 0, endingBalance |-> finalBalance,
                     inflationAdjustedValue |-> finalBalance] >>]

----------------------------------------------------------------------------
(* Annual-step helpers of the two risk analyses *)

\* annual returns are counted in 1/AnnualDen
AnnualDen == 100 * 100

\* retirementPhase.annualWithdrawal, escalated when withdrawalAdjustForInflation
WithdrawalAmount(inp, year) ==
    IF inp.retirementPhase.withdrawalAdjustForInflation
    THEN TimesPow(inp.retirementPhase.annualWithdrawal, inp.inflationRate, year)
    ELSE inp.retirementPhase.annualWithdrawal

\* (balance * (fees.expenseRatio + fees.advisoryFee)) / 100
AnnualFees(inp, balance) ==
    Pct(balance, inp.fees.expenseRatio + inp.fees.advisoryFee)

\* the deterministic year loops of calculateSequenceRisk (857-882) and of
\* calculateRetirementSuccessRate (1327-1353): withdraw, stop when the balance is
\* <= 0, else grow and pay fees.  zeroOnStop is the latter's `balance = 0`.
RECURSIVE DeterministicYears(_, _, _, _, _, _)
DeterministicYears(inp, annualReturn, limit, zeroOnStop, year, st) ==
    IF year >= limit THEN st
    ELSE LET b1 == st.balance - WithdrawalAmount(inp, year)
         IN  IF b1 <= 0
             THEN [balance |-> IF zeroOnStop THEN 0 ELSE b1,
                   yearsLasted |-> year, didRunOutOfMoney |-> TRUE]
             ELSE LET b2 == b1 + Pct(b1, annualReturn)
                      b3 == b2 - AnnualFees(inp, b2)
                  IN  DeterministicYears(inp, annualReturn, limit, zeroOnStop, year + 1,
                          [balance |-> b3, yearsLasted |-> year + 1,
                           didRunOutOfMoney |-> FALSE])

\* Variant of Percentile that indexes the trials in the order they were run.
Percentile_Unsorted(finalBalances, tenths) ==
    finalBalances[((Len(finalBalances) * tenths) \div 10) + 1]

\* finalBalances[Math.floor(finalBalances.length * tenths / 10)] of the sorted trials
Percentile(finalBalances, tenths) ==
    LET sorted == SortSeq(finalBalances, LAMBDA x, y : x < y)
    IN  sorted[((Len(sorted) * tenths) \div 10) + 1]

MonteCarloAnalysis(finalBalances, successCount) ==
    [worstCaseScenario |-> Percentile(finalBalances, 1),
     bestCaseScenario |-> Percentile(finalBalances, 9),
     medianScenario |-> Percentile(finalBalances, 5),
     successRate |-> [num |-> successCount, den |-> simulations]]

NoTrials == [sim |-> 0, finalBalances |-> << >>, successCount |-> 0]

\* the number of draws of a trial that are not the neutral 0.5
Shocks(draws) == Cardinality({k \in DOMAIN draws : draws[k] # Neutral})

\* the draws a month may take, given the shocks already spent: with a
\* volatility every draw but MaxShocks of a run is the neutral 0.5, without one
\* every draw is free
MonthDraws(volatility, spent) ==
    IF volatility # 0 /\ spent >= MaxShocks THEN {Neutral} ELSE DrawSet

\* what a month's draw adds to the shocks spent
Shock(volatility, u) == IF volatility = 0 \/ u = Neutral THEN 0 ELSE 1

\* the draw vectors a trial of `years` years may take
TrialDraws(years, spent) ==
    {d \in [1..years -> DrawSet] : spent + Shocks(d) <= MaxShocks}

----------------------------------------------------------------------------
(* calculateSequenceRisk, lines 796-993 *)

\* the zero-volatility month loop (829-840)
RECURSIVE SequenceMonths(_, _, _)
SequenceMonths(inp, month, finalBalance) ==
    IF month > inp.investmentHorizon * 12 THEN finalBalance
    ELSE LET b1 == finalBalance + inp.monthlyContribution
             b2 == b1 + MulDiv(b1, MonthlyRate(inp.expectedAnnualReturn), RateDen)
             monthlyFees ==
                 MulDiv(b2, MonthlyRate(inp.fees.expenseRatio + inp.fees.advisoryFee),
                        RateDen)
         IN  SequenceMonths(inp, month + 1, b2 - monthlyFees)

\* the zero-volatility branch (821-894)
SequenceRiskDeterministic(inp, includeWithdrawalPhase) ==
    LET finalBalance == SequenceMonths(inp, 1, inp.initialInvestment)
        rp == inp.retirementPhase
        run == DeterministicYears(inp, rp.retirementReturn, rp.retirementYears, FALSE, 0,
                   [balance |-> finalBalance, yearsLasted |-> 0,
                    didRunOutOfMoney |-> FALSE])
        successRate ==
            IF includeWithdrawalPhase /\ rp.enabled
            THEN (IF run.yearsLasted >= rp.retirementYears THEN 1 ELSE 0)
            ELSE 1
    IN  [worstCaseScenario |-> Pct(finalBalance, 95),
         bestCaseScenario |-> Pct(finalBalance, 105),
         medianScenario |-> finalBalance,
         successRate |-> [num |-> successRate, den |-> 1]]

\* expectedAnnualReturn / 100 + ((Math.random() - 0.5) * returnVolatility) / 100 (907-909)
SampledAnnualReturn(inp, u) ==
    inp.expectedAnnualReturn * 100 + (u - Neutral) * inp.returnVolatility

\* the returns sampled for the years of the horizon (905-911)
SampledReturns(inp, draws) ==
    [k \in 1..inp.investmentHorizon |-> SampledAnnualReturn(inp, draws[k])]

\* [w[i], w[j]] = [w[j], w[i]] on a list counted from 1
Swap(w, i, j) == [w EXCEPT ![i] = w[j], ![j] = w[i]]

\* the values j = Math.floor(Math.random() * (i + 1)) of a Fisher-Yates pass
\* over n elements, one for each i from n - 1 down to 1 (923)
ShuffleChoices(n) ==
    {js \in [1..(n - 1) -> 0..(n - 1)] : \A i \in 1..(n - 1) : js[i] <= i}

\* for (let i = length - 1; i > 0; i--) swap elements i and j (922-929)
RECURSIVE FisherYates(_, _, _)
FisherYates(w, js, i) ==
    IF i <= 0 THEN w
    ELSE FisherYates(Swap(w, i + 1, js[i] + 1), js, i - 1)

\* annualReturns.slice(withdrawalStartYear), withdrawalStartYear being
\* investmentHorizon (915-920)
WithdrawalReturns(inp, annualReturns) ==
    SubSeq(annualReturns, inp.investmentHorizon + 1, Len(annualReturns))

\* the returns a trial replays (913-934): the returns from investmentHorizon on
\* are shuffled and joined to the ones before
ShuffledReturns(inp, includeWithdrawalPhase, annualReturns, js) ==
    LET withdrawalStartYear == inp.investmentHorizon
        contributionReturns == SubSeq(annualReturns, 1, withdrawalStartYear)
        withdrawalReturns == WithdrawalReturns(inp, annualReturns)
    IN  IF includeWithdrawalPhase /\ inp.retirementPhase.enabled
        THEN contributionReturns
                \o FisherYates(withdrawalReturns, js, Len(withdrawalReturns) - 1)
        ELSE annualReturns

\* one trial's year loop (937-976)
RECURSIVE SequenceTrial(_, _, _, _)
SequenceTrial(inp, annualReturns, year, balance) ==
    IF year >= inp.investmentHorizon
    THEN [balance |-> balance, didRunOutOfMoney |-> FALSE]
    ELSE LET contributing ==
                 ~inp.retirementPhase.enabled \/ year < inp.investmentHorizon
             b1 == IF contributing THEN balance + inp.monthlyContribution * 12
                   ELSE balance - inp.retirementPhase.annualWithdrawal
         IN  IF ~contributing /\ b1 <= 0
             THEN [balance |-> 0, didRunOutOfMoney |-> TRUE]
             ELSE LET b2 == b1 + MulDiv(b1, annualReturns[year + 1], AnnualDen)
                      b3 == b2 - AnnualFees(inp, b2)
                      dividends ==
                          MulDiv(MulDiv(b3, annualReturns[year + 1], AnnualDen), 4, 10)
                      dividendTax == Pct(dividends, inp.taxRate.dividends)
                      b4 == IF inp.accountType = "taxable" THEN b3 - dividendTax ELSE b3
                  IN  SequenceTrial(inp, annualReturns, year + 1, b4)

----------------------------------------------------------------------------
(* The results of calculateMonthlyCompoundInterest, lines 602-627 *)

NoRetirementResults ==
    [present |-> FALSE,
     summary |-> [startingBalance |-> 0, totalWithdrawals |-> 0, totalGrowth |-> 0,
                  finalBalance |-> 0, inflationAdjustedFinalBalance |-> 0,
                  totalTaxesPaid |-> 0, yearsOfIncome |-> 0,
                  projectedLongevity |-> 0],
     probabilityMetrics |-> [successRate |-> One, medianEndingBalance |-> 0,
                             worstCaseBalance |-> 0, bestCaseBalance |-> 0],
     yearByYearDetails |-> << >>]

NoResults ==
    [summary |-> [finalBalance |-> 0, totalContributions |-> 0, totalGrowth |-> 0,
                  inflationAdjustedValue |-> 0, totalWithdrawals |-> 0,
                  totalTaxesPaid |-> 0],
     probabilityMetrics |-> [median |-> 0, upperBound |-> 0, lowerBound |-> 0,
                             worstCaseBalance |-> 0, successRate |-> One],
     yearByYearDetails |-> << >>]

\* Variant of InflationAdjustedValue that discounts by the index of the last
\* year, as the yearly rows do, instead of by the horizon.
InflationAdjustedValue_ByLastYear(inp, finalBalance) ==
    OverPow(finalBalance, inp.inflationRate, inp.investmentHorizon - 1)

\* summary.inflationAdjustedValue (612-614)
InflationAdjustedValue(inp, finalBalance) ==
    OverPow(finalBalance, inp.inflationRate, inp.investmentHorizon)

Results(inp, a, sequenceRiskAnalysis) ==
    [summary |->
        [finalBalance |-> Total(a.bal),
         totalContributions |-> a.totalContributions,
         totalGrowth |-> Total(a.bal) - a.totalContributions + a.totalWithdrawals,
         inflationAdjustedValue |-> InflationAdjustedValue(inp, Total(a.bal)),
         totalWithdrawals |-> a.totalWithdrawals,
         totalTaxesPaid |-> a.totalTaxesPaid],
     probabilityMetrics |->
        [median |-> sequenceRiskAnalysis.medianScenario,
         upperBound |-> sequenceRiskAnalysis.bestCaseScenario,
         lowerBound |-> sequenceRiskAnalysis.worstCaseScenario,
         worstCaseBalance |-> sequenceRiskAnalysis.worstCaseScenario,
         successRate |-> sequenceRiskAnalysis.successRate],
     yearByYearDetails |-> a.yearByYearDetails]

----------------------------------------------------------------------------
(* calculateRetirementPhase, lines 997-1290 *)

MAX_SIMULATION_YEARS == 100

DefaultRetirementYears == 30

\* retirementPhase.retirementYears || 30 (1041, 1267)
RetirementYears(inp) ==
    IF inp.retirementPhase.retirementYears = 0
       \/ inp.retirementPhase.retirementYears = Undefined
    THEN DefaultRetirementYears
    ELSE inp.retirementPhase.retirementYears

\* retirementReturn !== undefined ? retirementReturn : expectedAnnualReturn (1011-1014)
RetirementExpectedReturn(inp) ==
    IF inp.retirementPhase.retirementReturn # Undefined
    THEN inp.retirementPhase.retirementReturn
    ELSE inp.expectedAnnualReturn

\* Variant of EstimatedLongevity that divides whatever the withdrawal is.
EstimatedLongevity_Unguarded(inp, startingBalance) ==
    IF RetirementExpectedReturn(inp) = 0 /\ inp.returnVolatility = 0
    THEN FloorQuotient(startingBalance, inp.retirementPhase.annualWithdrawal)
    ELSE 0

\* the quick estimate for zero return and zero volatility (1053-1061)
EstimatedLongevity(inp, startingBalance) ==
    IF RetirementExpectedReturn(inp) = 0 /\ inp.returnVolatility = 0
    THEN IF inp.retirementPhase.annualWithdrawal > 0
         THEN FloorQuotient(startingBalance, inp.retirementPhase.annualWithdrawal)
         ELSE 100
    ELSE 0

\* the locals as the year loop is entered (1010-1065)
RetBegin(inp, startingBalance) ==
    [startingBalance |-> startingBalance,
     year |-> 0, month |-> 1,
     bal |-> InitialBalances(inp.accountType, inp.accountAllocation, startingBalance),
     totalWithdrawals |-> 0, totalTaxesPaid |-> 0, totalGrowth |-> 0,
     cumulativeWithdrawals |-> 0,
     moneyRunOut |-> FALSE,
     yearsOfIncome |-> RetirementYears(inp),
     projectedLongevity |-> 0,
     estimatedLongevity |-> EstimatedLongevity(inp, startingBalance),
     yearStartBalance |-> 0,
     yearWithdrawals |-> 0, yearWithdrawalTaxes |-> 0, yearEarnings |-> 0,
     yearFees |-> 0, yearTaxes |-> 0,
     yearByYearDetails |-> << >>,
     wd |-> NoWithdrawal,
     exited |-> FALSE]

NoRet ==
    [startingBalance |-> 0, year |-> 0, month |-> 1,
     bal |-> [td |-> 0, tf |-> 0, tx |-> 0],
     totalWithdrawals |-> 0, totalTaxesPaid |-> 0, totalGrowth |-> 0,
     cumulativeWithdrawals |-> 0, moneyRunOut |-> FALSE, yearsOfIncome |-> 0,
     projectedLongevity |-> 0, estimatedLongevity |-> 0, yearStartBalance |-> 0,
     yearWithdrawals |-> 0, yearWithdrawalTaxes |-> 0, yearEarnings |-> 0,
     yearFees |-> 0, yearTaxes |-> 0, yearByYearDetails |-> << >>,
     wd |-> NoWithdrawal, exited |-> FALSE]

\* Variant of RetYearStops without the ceiling of MAX_SIMULATION_YEARS.
RetYearStops_NoCeiling(r) == r.month = 1 /\ Total(r.bal) <= 0

\* the year loop is left at its head: the ceiling is reached (1066), or the year
\* starts with nothing left (1077-1086)
RetYearStops(r) == r.month = 1 /\ (r.year >= MAX_SIMULATION_YEARS \/ Total(r.bal) <= 0)

RetStopStep(inp, r) ==
    IF r.year < MAX_SIMULATION_YEARS
    THEN [r EXCEPT !.moneyRunOut = TRUE,
                   !.projectedLongevity = r.year,
                   !.yearsOfIncome =
                       IF r.year < RetirementYears(inp) THEN r.year ELSE @,
                   !.exited = TRUE]
    ELSE [r EXCEPT !.exited = TRUE]

\* ((Math.random() - 0.5) * (returnVolatility * 0.8)) / Math.sqrt(12) / 100 (1161-1164)
RetirementModifier(volatility, u) ==
    ((u - Neutral) * volatility * 8 * Sqrt12) \div 100000

\* whether a month of the retirement loop draws from Math.random() (1160)
RetDraws(inp, r) == r.year > 0 /\ RetirementExpectedReturn(inp) # 0

\* Variant of RetirementMonthlyReturn that applies the return from the first
\* retirement year on.
RetirementMonthlyReturn_FromStart(inp, r, u) ==
    MonthlyRate(RetirementExpectedReturn(inp))
    + (IF RetDraws(inp, r) THEN RetirementModifier(inp.returnVolatility, u) ELSE 0)

\* the return applied in a month of the retirement loop (1153-1168)
RetirementMonthlyReturn(inp, r, u) ==
    LET monthlyReturnModifier ==
            IF RetDraws(inp, r) THEN RetirementModifier(inp.returnVolatility, u) ELSE 0
    IN  IF r.year = 0 THEN 0
        ELSE MonthlyRate(RetirementExpectedReturn(inp)) + monthlyReturnModifier

\* projectedLongevity after a simulated year (1239-1240)
LongevityAfterYear(r) == r.year + 1

\* one pass of the month loop (1104-1206); in month 1 the year's locals are set
\* first (1067-1101), after month 12 the year is closed (1208-1245)
RetMonthStep(inp, r, u) ==
    LET rp == inp.retirementPhase
        first == r.month = 1
        yearStartBalance == IF first THEN Total(r.bal) ELSE r.yearStartBalance
        yw0 == IF first THEN 0 ELSE r.yearWithdrawals
        ywt0 == IF first THEN 0 ELSE r.yearWithdrawalTaxes
        ye0 == IF first THEN 0 ELSE r.yearEarnings
        yf0 == IF first THEN 0 ELSE r.yearFees
        yt0 == IF first THEN 0 ELSE r.yearTaxes
        annualWithdrawal == WithdrawalAmount(inp, r.year)
        monthlyWithdrawal == annualWithdrawal \div 12
        w == IF monthlyWithdrawal > 0
             THEN Withdraw(r.bal, monthlyWithdrawal, inp.taxRate)
             ELSE NoWithdrawal
        bal1 == IF w.valid THEN w.after ELSE r.bal
        moneyRunOut == r.moneyRunOut \/ (w.valid /\ w.remainingWithdrawal > 0)
        monthlyReturn == RetirementMonthlyReturn(inp, r, u)
        g == Grow(bal1, monthlyReturn, inp.fees, inp.taxRate)
        yw1 == yw0 + w.recorded
        ywt1 == ywt0 + w.capitalGainsTax + w.incomeTax
        ye1 == ye0 + g.earnings
        yf1 == yf0 + g.fees
        yt1 == yt0 + g.taxes
        last == r.month = 12
        cumulativeWithdrawals == r.cumulativeWithdrawals + yw1
        row == [year |-> r.year,
                startingBalance |->
                    IF r.year = 0 THEN r.startingBalance ELSE yearStartBalance,
                withdrawals |-> yw1,
                cumulativeWithdrawals |-> cumulativeWithdrawals,
                earnings |-> ye1,
                fees |-> yf1,
                taxes |-> yt1 + ywt1,
                endingBalance |-> Total(g.bal),
                inflationAdjustedValue |->
                    OverPow(Total(g.bal), inp.inflationRate, r.year),
                withdrawalTaxes |-> ywt1]
    IN  [startingBalance |-> r.startingBalance,
         year |-> IF last /\ ~moneyRunOut THEN r.year + 1 ELSE r.year,
         month |-> IF last THEN 1 ELSE r.month + 1,
         bal |-> g.bal,
         totalWithdrawals |->
             IF last THEN r.totalWithdrawals + yw1 ELSE r.totalWithdrawals,
         totalTaxesPaid |->
             r.totalTaxesPaid + w.capitalGainsTax + w.incomeTax + g.taxes,
         totalGrowth |-> IF last THEN r.totalGrowth + ye1 ELSE r.totalGrowth,
         cumulativeWithdrawals |->
             IF last THEN cumulativeWithdrawals ELSE r.cumulativeWithdrawals,
         moneyRunOut |-> moneyRunOut,
         yearsOfIncome |-> r.yearsOfIncome,
         projectedLongevity |->
             IF last THEN LongevityAfterYear(r) ELSE r.projectedLongevity,
         estimatedLongevity |-> r.estimatedLongevity,
         yearStartBalance |-> yearStartBalance,
         yearWithdrawals |-> yw1, yearWithdrawalTaxes |-> ywt1,
         yearEarnings |-> ye1, yearFees |-> yf1, yearTaxes |-> yt1,
         yearByYearDetails |->
             IF last /\ r.year < RetirementYears(inp)
             THEN Append(r.yearByYearDetails, row) ELSE r.yearByYearDetails,
         wd |-> w,
         exited |-> last /\ moneyRunOut]

\* after the loop: the zero-return, zero-volatility override (1248-1258)
RetAfterLoop(inp, r) ==
    IF RetirementExpectedReturn(inp) = 0 /\ inp.returnVolatility = 0
    THEN [r EXCEPT !.projectedLongevity = r.estimatedLongevity,
                   !.yearsOfIncome =
                       IF r.estimatedLongevity < RetirementYears(inp)
                       THEN r.estimatedLongevity ELSE @]
    ELSE r

\* the returned RetirementPhaseResults (1261-1289), with the startingBalance the
\* caller writes over it (645-650)
RetirementResults(inp, r, retirementRiskAnalysis) ==
    [present |-> TRUE,
     summary |->
        [startingBalance |-> r.startingBalance,
         totalWithdrawals |-> r.totalWithdrawals,
         totalGrowth |-> r.totalGrowth,
         finalBalance |-> Total(r.bal),
         inflationAdjustedFinalBalance |->
             OverPow(Total(r.bal), inp.inflationRate, r.yearsOfIncome),
         totalTaxesPaid |-> r.totalTaxesPaid,
         yearsOfIncome |-> r.yearsOfIncome,
         projectedLongevity |-> r.projectedLongevity],
     probabilityMetrics |->
        [successRate |-> retirementRiskAnalysis.successRate,
         medianEndingBalance |-> retirementRiskAnalysis.medianScenario,
         worstCaseBalance |-> retirementRiskAnalysis.worstCaseScenario,
         bestCaseBalance |-> retirementRiskAnalysis.bestCaseScenario],
     yearByYearDetails |-> r.yearByYearDetails]

----------------------------------------------------------------------------
(* calculateRetirementSuccessRate, lines 1295-1429 *)

\* zero return with fixed withdrawals: the years lasted come from a division
\* instead of the year loop (1316-1320)
UsesSimpleMath(inp) ==
    /\ RetirementExpectedReturn(inp) = 0
    /\ inp.retirementPhase.annualWithdrawal > 0
    /\ ~inp.retirementPhase.withdrawalAdjustForInflation

\* Variant of RetirementSuccessDeterministic that counts a plan as a success when
\* it lasts one year less than requested.
RetirementSuccessDeterministic_YearShort(inp, startingBalance, retirementYears) ==
    LET run == DeterministicYears(inp, RetirementExpectedReturn(inp), 100, TRUE, 0,
                   [balance |-> startingBalance, yearsLasted |-> 0,
                    didRunOutOfMoney |-> FALSE])
        successRate == IF run.yearsLasted >= retirementYears - 1 THEN 1 ELSE 0
    IN  [worstCaseScenario |-> Pct(run.balance, 95),
         bestCaseScenario |-> Pct(run.balance, 105),
         medianScenario |-> run.balance,
         successRate |-> [num |-> successRate, den |-> 1]]

\* the zero-volatility branch (1309-1372)
RetirementSuccessDeterministic(inp, startingBalance, retirementYears) ==
    LET rp == inp.retirementPhase
        expectedReturn == RetirementExpectedReturn(inp)
        start == [balance |-> startingBalance, yearsLasted |-> 0,
                  didRunOutOfMoney |-> FALSE]
        run == IF UsesSimpleMath(inp)
               THEN [start EXCEPT
                        !.yearsLasted =
                            FloorQuotient(startingBalance, rp.annualWithdrawal)]
               ELSE DeterministicYears(inp, expectedReturn, 100, TRUE, 0, start)
        successRate == IF run.yearsLasted >= retirementYears THEN 1 ELSE 0
    IN  [worstCaseScenario |-> Pct(run.balance, 95),
         bestCaseScenario |-> Pct(run.balance, 105),
         medianScenario |-> run.balance,
         successRate |-> [num |-> successRate, den |-> 1]]

\* expectedReturn / 100 + ((Math.random() - 0.5) * (returnVolatility * 0.8)) / 100
RetirementAnnualReturn(inp, u) ==
    RetirementExpectedReturn(inp) * 100
    + ((u - Neutral) * inp.returnVolatility * 8) \div 10

\* one trial's year loop (1381-1412)
RECURSIVE RetirementTrial(_, _, _, _, _)
RetirementTrial(inp, retirementYears, draws, year, balance) ==
    IF year >= retirementYears
    THEN [balance |-> balance, ranOutOfMoney |-> FALSE]
    ELSE LET b1 == balance - WithdrawalAmount(inp, year)
         IN  IF b1 <= 0
             THEN [balance |-> 0, ranOutOfMoney |-> TRUE]
             ELSE LET annualReturn == RetirementAnnualReturn(inp, draws[year + 1])
                      b2 == b1 + MulDiv(b1, annualReturn, AnnualDen)
                      b3 == b2 - AnnualFees(inp, b2)
                  IN  RetirementTrial(inp, retirementYears, draws, year + 1, b3)

----------------------------------------------------------------------------
(* The call calculateMonthlyCompoundInterest(inputs) as a state machine *)

WithRetirement(r, rr) ==
    [summary |-> r.summary, probabilityMetrics |-> r.probabilityMetrics,
     yearByYearDetails |-> r.yearByYearDetails, retirementPhaseResults |-> rr]

Init ==
    /\ inputs \in InputSpace
    /\ pc = "call"
    /\ acc = AccBegin(inputs)
    /\ twin = AccBegin(inputs)
    /\ ret = NoRet
    /\ mc = NoTrials
    /\ res = WithRetirement(NoResults, NoRetirementResults)
    /\ shocks = 0

\* 328-339: the closed-form branch returns at once
CallPredictable ==
    /\ pc = "call"
    /\ IsPredictable(inputs)
    /\ res' = WithRetirement(calculatePredictableTestResult(inputs),
                             NoRetirementResults)
    /\ pc' = "done"
    /\ UNCHANGED <<inputs, acc, twin, ret, mc, shocks>>

\* 341-365: otherwise the year loop is entered
CallLoop ==
    /\ pc = "call"
    /\ ~IsPredictable(inputs)
    /\ pc' = IF acc.year < inputs.investmentHorizon THEN "acc" ELSE "seq"
    /\ UNCHANGED <<inputs, acc, twin, ret, mc, res, shocks>>

\* 407-566 (and 369-404, 568-593 around it): one month of the year loop
AccMonth ==
    /\ pc = "acc"
    /\ \E u \in MonthDraws(inputs.returnVolatility, shocks) :
       \E extreme \in (IF u = Neutral THEN {FALSE} ELSE BOOLEAN) :
          /\ acc' = AccMonthStep(inputs, acc, u, extreme)
          /\ shocks' = shocks + Shock(inputs.returnVolatility, u)
    /\ pc' = IF acc'.year < inputs.investmentHorizon THEN "acc" ELSE "seq"
    /\ UNCHANGED <<inputs, twin, ret, mc, res>>

\* 597-656: the results are assembled and, with the retirement phase enabled,
\* calculateRetirementPhase is entered with the final balance
AfterSequenceRisk(sequenceRiskAnalysis) ==
    /\ res' = WithRetirement(Results(inputs, acc, sequenceRiskAnalysis),
                             NoRetirementResults)
    /\ mc' = NoTrials
    /\ IF inputs.retirementPhase.enabled
       THEN /\ ret' = RetBegin(inputs, Total(acc.bal))
            /\ pc' = "ret"
       ELSE /\ ret' = ret
            /\ pc' = "done"
    /\ UNCHANGED <<inputs, acc, twin, shocks>>

\* calculateSequenceRisk with zero volatility
SequenceRiskExact ==
    /\ pc = "seq"
    /\ inputs.returnVolatility = 0
    /\ AfterSequenceRisk(
           SequenceRiskDeterministic(inputs, inputs.retirementPhase.enabled))

\* calculateSequenceRisk: one trial of the Monte Carlo loop (903-982)
SequenceRiskTrial ==
    /\ pc = "seq"
    /\ inputs.returnVolatility # 0
    /\ mc.sim < simulations
    /\ \E draws \in TrialDraws(inputs.investmentHorizon, shocks) :
       \E js \in ShuffleChoices(Len(WithdrawalReturns(inputs,
                                         SampledReturns(inputs, draws)))) :
          LET annualReturns ==
                  ShuffledReturns(inputs, inputs.retirementPhase.enabled,
                                  SampledReturns(inputs, draws), js)
              t == SequenceTrial(inputs, annualReturns, 0, inputs.initialInvestment)
          IN  /\ mc' = [sim |-> mc.sim + 1,
                        finalBalances |-> Append(mc.finalBalances, t.balance),
                        successCount |-> IF t.didRunOutOfMoney THEN mc.successCount
                                         ELSE mc.successCount + 1]
              /\ shocks' = shocks + Shocks(draws)
    /\ UNCHANGED <<inputs, pc, acc, twin, ret, res>>

\* calculateSequenceRisk: the percentiles of the trials (984-992)
SequenceRiskPercentiles ==
    /\ pc = "seq"
    /\ inputs.returnVolatility # 0
    /\ mc.sim >= simulations
    /\ AfterSequenceRisk(MonteCarloAnalysis(mc.finalBalances, mc.successCount))

\* calculateRetirementPhase: one month of the year loop
RetMonth ==
    /\ pc = "ret"
    /\ ~ret.exited
    /\ ~RetYearStops(ret)
    /\ \E u \in (IF RetDraws(inputs, ret)
                 THEN MonthDraws(inputs.returnVolatility, shocks) ELSE {Neutral}) :
          /\ ret' = RetMonthStep(inputs, ret, u)
          /\ shocks' = shocks + Shock(inputs.returnVolatility, u)
    /\ UNCHANGED <<inputs, pc, acc, twin, mc, res>>

\* calculateRetirementPhase: the year loop ends at its head
RetStop ==
    /\ pc = "ret"
    /\ ~ret.exited
    /\ RetYearStops(ret)
    /\ ret' = RetStopStep(inputs, ret)
    /\ UNCHANGED <<inputs, pc, acc, twin, mc, res, shocks>>

\* calculateRetirementPhase: after the loop (1248-1261)
RetLoopDone ==
    /\ pc = "ret"
    /\ ret.exited
    /\ ret' = RetAfterLoop(inputs, ret)
    /\ pc' = "rsr"
    /\ UNCHANGED <<inputs, acc, twin, mc, res, shocks>>

Return(retirementRiskAnalysis) ==
    /\ res' = [res EXCEPT !.retirementPhaseResults =
                  RetirementResults(inputs, ret, retirementRiskAnalysis)]
    /\ mc' = NoTrials
    /\ pc' = "done"
    /\ UNCHANGED <<inputs, acc, twin, ret, shocks>>

\* calculateRetirementSuccessRate with zero volatility
RetirementSuccessExact ==
    /\ pc = "rsr"
    /\ inputs.returnVolatility = 0
    /\ Return(RetirementSuccessDeterministic(inputs, ret.startingBalance,
                                             RetirementYears(inputs)))

\* calculateRetirementSuccessRate: one trial of the Monte Carlo loop (1380-1418)
RetirementSuccessTrial ==
    /\ pc = "rsr"
    /\ inputs.returnVolatility # 0
    /\ mc.sim < simulations
    /\ \E draws \in TrialDraws(RetirementYears(inputs), shocks) :
          LET t == RetirementTrial(inputs, RetirementYears(inputs), draws, 0,
                                   ret.startingBalance)
          IN  /\ mc' = [sim |-> mc.sim + 1,
                        finalBalances |-> Append(mc.finalBalances, t.balance),
                        successCount |-> IF t.ranOutOfMoney THEN mc.successCount
                                         ELSE mc.successCount + 1]
              /\ shocks' = shocks + Shocks(draws)
    /\ UNCHANGED <<inputs, pc, acc, twin, ret, res>>

\* calculateRetirementSuccessRate: the percentiles of the trials (1420-1428)
RetirementSuccessPercentiles ==
    /\ pc = "rsr"
    /\ inputs.returnVolatility # 0
    /\ mc.sim >= simulations
    /\ Return(MonteCarloAnalysis(mc.finalBalances, mc.successCount))

Next ==
    \/ CallPredictable
    \/ CallLoop
    \/ AccMonth
    \/ SequenceRiskExact
    \/ SequenceRiskTrial
    \/ SequenceRiskPercentiles
    \/ RetMonth
    \/ RetStop
    \/ RetLoopDone
    \/ RetirementSuccessExact
    \/ RetirementSuccessTrial
    \/ RetirementSuccessPercentiles

Spec == Init /\ [][Next]_vars

----------------------------------------------------------------------------
(* Two calls of calculateMonthlyCompoundInterest that differ in accountType  *)
(* only: `acc` is the taxable run, `twin` the tax-deferred one, and `res`    *)
(* holds the two tax reports once both calls have returned.                  *)

TaxDeferredTwin(inp) == [inp EXCEPT !.accountType = "tax-deferred"]

\* summary.totalTaxesPaid and the rows of a returned CalculatorResults
TaxReport(r) ==
    [totalTaxesPaid |-> r.summary.totalTaxesPaid,
     yearByYearDetails |-> r.yearByYearDetails]

\* the same two fields as the year loop returns them (611, 626)
LoopTaxReport(a) ==
    [totalTaxesPaid |-> a.totalTaxesPaid, yearByYearDetails |-> a.yearByYearDetails]

NoTaxReport == [totalTaxesPaid |-> 0, yearByYearDetails |-> << >>]

InitPair ==
    /\ inputs \in {i \in InputSpace : i.accountType = "taxable"}
    /\ pc = "pair"
    /\ acc = AccBegin(inputs)
    /\ twin = AccBegin(TaxDeferredTwin(inputs))
    /\ ret = NoRet
    /\ mc = NoTrials
    /\ res = [taxable |-> NoTaxReport, taxDeferred |-> NoTaxReport]
    /\ shocks = 0

\* 328-339 in both calls
PairPredictable ==
    /\ pc = "pair"
    /\ IsPredictable(inputs)
    /\ res' = [taxable |-> TaxReport(calculatePredictableTestResult(inputs)),
               taxDeferred |->
                   TaxReport(calculatePredictableTestResult(TaxDeferredTwin(inputs)))]
    /\ pc' = "pairDone"
    /\ UNCHANGED <<inputs, acc, twin, ret, mc, shocks>>

\* one month of the year loop in both calls, each with its own draws
PairMonth ==
    /\ pc = "pair"
    /\ ~IsPredictable(inputs)
    /\ acc.year < inputs.investmentHorizon
    /\ \E u \in MonthDraws(inputs.returnVolatility, shocks) :
       \E extreme \in (IF u = Neutral THEN {FALSE} ELSE BOOLEAN) :
       \E v \in MonthDraws(inputs.returnVolatility,
                           shocks + Shock(inputs.returnVolatility, u)) :
       \E vextreme \in (IF v = Neutral THEN {FALSE} ELSE BOOLEAN) :
          /\ acc' = AccMonthStep(inputs, acc, u, extreme)
          /\ twin' = AccMonthStep(TaxDeferredTwin(inputs), twin, v, vextreme)
          /\ shocks' = shocks + Shock(inputs.returnVolatility, u)
                              + Shock(inputs.returnVolatility, v)
    /\ UNCHANGED <<inputs, pc, ret, mc, res>>

\* 602-627 in both calls: the totals and the rows are returned
PairReturn ==
    /\ pc = "pair"
    /\ ~IsPredictable(inputs)
    /\ acc.year >= inputs.investmentHorizon
    /\ res' = [taxable |-> LoopTaxReport(acc), taxDeferred |-> LoopTaxReport(twin)]
    /\ pc' = "pairDone"
    /\ UNCHANGED <<inputs, acc, twin, ret, mc, shocks>>

NextPair ==
    \/ PairPredictable
    \/ PairMonth
    \/ PairReturn

SpecPair == InitPair /\ [][NextPair]_vars

----------------------------------------------------------------------------
(* Properties of calculateMonthlyCompoundInterest *)

\* the call has returned
Returned == pc = "done"

\* zero volatility, zero inflation, zero fees, zero tax rates, horizon of one year
PlainOneYear ==
    /\ inputs.returnVolatility = 0
    /\ inputs.inflationRate = 0
    /\ inputs.fees = NoFees
    /\ inputs.taxRate = NoTax
    /\ inputs.investmentHorizon = 1

C2_EveryYearContributes ==
    (Returned /\ inputs.annualContributionIncrease = 0) =>
        res.summary.totalContributions =
            inputs.initialInvestment
            + 12 * inputs.monthlyContribution * inputs.investmentHorizon

\* the years of the horizon in which contributions are made: the years before
\* the withdrawal phase, or all of them when the closed form is returned
ContributionYears ==
    IF inputs.retirementPhase.enabled /\ ~PlainOneYear
    THEN Min(inputs.investmentHorizon, WithdrawalStartYear(inputs))
    ELSE inputs.investmentHorizon

\* C2: with annualContributionIncrease = 0, for every account type,
\* summary.totalContributions = initialInvestment + 12 * m * n, where n counts
\* the years of the horizon in which contributions are made: n = y when the
\* retirement phase is disabled, when withdrawalStartYear is absent or >= y, or
\* when the closed form is returned (zero volatility, inflation, fees and taxes
\* with y = 1); n = withdrawalStartYear otherwise.
C2_ContributionYears ==
    (Returned /\ inputs.annualContributionIncrease = 0) =>
        res.summary.totalContributions =
            inputs.initialInvestment
            + 12 * inputs.monthlyContribution * ContributionYears

\* a call whose withdrawal phase starts inside the horizon has returned, having
\* contributed in the years before it only
C2_Witness ==
    /\ Returned
    /\ inputs.annualContributionIncrease = 0
    /\ inputs.monthlyContribution > 0
    /\ inputs.retirementPhase.enabled
    /\ WithdrawalStartYear(inputs) = 1
    /\ inputs.investmentHorizon = 2
    /\ res.summary.totalContributions =
           inputs.initialInvestment + 12 * inputs.monthlyContribution

\* C3: for every horizon h >= 1 the returned yearByYearDetails has exactly h + 1
\* rows, the first of them a year-0 seed row, on the month-loop path as well as
\* on the closed-form path.
C3_SeedRowAndLength ==
    Returned =>
        /\ Len(res.yearByYearDetails) = inputs.investmentHorizon + 1
        /\ res.yearByYearDetails[1] = SeedRow(inputs)

----------------------------------------------------------------------------
(* Taxes by account type *)

\* both calls of the pair have returned
PairReturned == pc = "pairDone"

\* row by row, the first list reports strictly more taxes than the second
MoreTaxesEachYear(rows, others) ==
    /\ Len(rows) = Len(others)
    /\ \A k \in 1..Len(rows) : rows[k].taxes > others[k].taxes

\* C4 as stated: of two calls that differ in accountType only, the taxable one
\* reports strictly greater summary.totalTaxesPaid, and strictly greater taxes
\* in every year, than the tax-deferred one.
C4_TaxableAlwaysPaysMore ==
    PairReturned =>
        /\ res.taxable.totalTaxesPaid > res.taxDeferred.totalTaxesPaid
        /\ MoreTaxesEachYear(res.taxable.yearByYearDetails,
                             res.taxDeferred.yearByYearDetails)

\* a pure accumulation with a steady positive return and a dividend tax: no
\* volatility, expectedAnnualReturn > 0, taxRate.dividends > 0, something
\* invested, and no year of the horizon in the withdrawal phase
SteadyTaxedAccumulation ==
    /\ inputs.returnVolatility = 0
    /\ inputs.expectedAnnualReturn > 0
    /\ inputs.taxRate.dividends > 0
    /\ inputs.initialInvestment + inputs.monthlyContribution > 0
    /\ \A y \in 0..(inputs.investmentHorizon - 1) : ~IsWithdrawalPhase(inputs, y)

\* C4: of two calls that differ in accountType only, with returnVolatility = 0,
\* expectedAnnualReturn > 0, taxRate.dividends > 0, a positive initialInvestment
\* or monthlyContribution and no withdrawal year inside the horizon, the taxable
\* one reports strictly greater summary.totalTaxesPaid, and strictly greater
\* taxes in every yearly row, than the tax-deferred one.
C4_TaxableAccumulationPaysMore ==
    (PairReturned /\ SteadyTaxedAccumulation) =>
        /\ res.taxable.totalTaxesPaid > res.taxDeferred.totalTaxesPaid
        /\ MoreTaxesEachYear(res.taxable.yearByYearDetails,
                             res.taxDeferred.yearByYearDetails)

\* a taxed two-year accumulation has returned in both account types, the taxable
\* call having paid dividend tax and the tax-deferred call none
C4_Witness ==
    /\ PairReturned
    /\ SteadyTaxedAccumulation
    /\ inputs.investmentHorizon = 2
    /\ Len(res.taxable.yearByYearDetails) = 2
    /\ res.taxable.yearByYearDetails[2].taxes > 0
    /\ res.taxDeferred.totalTaxesPaid = 0

\* C5: with accountType = "tax-free", totalTaxesPaid is 0 after every monthly
\* step (contributions, withdrawals, fees, growth) of
\* calculateMonthlyCompoundInterest and of calculateRetirementPhase, and in the
\* summaries they return, whatever the tax rates.
C5_TaxFreePaysNoTax ==
    inputs.accountType = "tax-free" =>
        /\ acc.totalTaxesPaid = 0
        /\ ret.totalTaxesPaid = 0
        /\ res.summary.totalTaxesPaid = 0
        /\ res.retirementPhaseResults.summary.totalTaxesPaid = 0

\* a tax-free call with non-zero tax rates has returned after growth in the
\* accumulation loop and withdrawals in the retirement loop
C5_Witness ==
    /\ Returned
    /\ inputs.accountType = "tax-free"
    /\ inputs.taxRate = SomeTax
    /\ res.summary.totalGrowth > 0
    /\ res.retirementPhaseResults.present
    /\ res.retirementPhaseResults.summary.totalWithdrawals > 0
    /\ res.retirementPhaseResults.summary.totalTaxesPaid = 0

----------------------------------------------------------------------------
(* The monthly withdrawal step of both loops *)

\* the withdrawal steps last taken by the two loops
LastWithdrawals == {w \in {acc.wd, ret.wd} : w.valid}

\* C6: every monthly withdrawal drains taxable, then tax-free, then
\* tax-deferred: tax-free is debited only if taxable is zero after the step,
\* tax-deferred only if taxable and tax-free are both zero after the step; and
\* when the need is smaller than the taxable balance only the taxable balance
\* decreases (by the need) and only capital-gains tax, no income tax, is due.
C6_DrainOrder ==
    \A w \in LastWithdrawals :
        /\ w.drawnTaxFree > 0 => w.after.tx = 0
        /\ w.drawnTaxDeferred > 0 => (w.after.tx = 0 /\ w.after.tf = 0)
        /\ w.need < w.before.tx =>
              /\ w.after.tx = w.before.tx - w.need
              /\ w.after.tf = w.before.tf
              /\ w.after.td = w.before.td
              /\ w.incomeTax = 0
              /\ w.capitalGainsTax =
                     Pct(MulDiv(w.need, 5, 10), inputs.taxRate.capitalGains)

\* a retirement month whose need is below the taxable balance while the
\* tax-deferred balance holds money too: only capital-gains tax is due
C6_Witness ==
    /\ ret.wd.valid
    /\ ret.wd.need < ret.wd.before.tx
    /\ ret.wd.before.td > 0
    /\ ret.wd.after.td = ret.wd.before.td
    /\ ret.wd.capitalGainsTax > 0
    /\ ret.wd.incomeTax = 0

\* C7: after every withdrawal step the three balances are >= 0; each account is
\* debited by min(remaining need, available balance), in the order taxable,
\* tax-free, tax-deferred; and the amounts drawn plus the unmet remainder equal
\* the month's need.
C7_ClampedWithdrawal ==
    \A w \in LastWithdrawals :
        /\ w.after.tx >= 0 /\ w.after.tf >= 0 /\ w.after.td >= 0
        /\ w.drawnTaxable = Min(w.need, w.before.tx)
        /\ w.drawnTaxFree = Min(w.need - w.drawnTaxable, w.before.tf)
        /\ w.drawnTaxDeferred =
               Min(w.need - w.drawnTaxable - w.drawnTaxFree, w.before.td)
        /\ w.after.tx = w.before.tx - w.drawnTaxable
        /\ w.after.tf = w.before.tf - w.drawnTaxFree
        /\ w.after.td = w.before.td - w.drawnTaxDeferred
        /\ w.remainingWithdrawal >= 0
        /\ w.drawnTaxable + w.drawnTaxFree + w.drawnTaxDeferred
               + w.remainingWithdrawal = w.need

\* a withdrawal that empties two accounts and still leaves part of the need unmet
C7_Witness ==
    \E w \in LastWithdrawals :
        /\ w.drawnTaxFree > 0
        /\ w.drawnTaxDeferred > 0
        /\ w.remainingWithdrawal > 0
        /\ Total(w.after) = 0

----------------------------------------------------------------------------
(* Properties of calculateRetirementPhase and calculateRetirementSuccessRate *)

\* calculateRetirementPhase has returned its results
RetirementReturned == Returned /\ res.retirementPhaseResults.present

\* annualWithdrawal > startingBalance * (1 + retirementReturn / 100)
Overdrawn ==
    inputs.retirementPhase.annualWithdrawal * 100 >
        res.retirementPhaseResults.summary.startingBalance
            * (100 + RetirementExpectedReturn(inputs))

\* C8: with annualWithdrawal > startingBalance * (1 + retirementReturn/100) and
\* retirementYears >= 1, calculateRetirementPhase reports
\* summary.projectedLongevity < retirementYears.
C8_OverdrawnLongevityBelowHorizon ==
    (RetirementReturned /\ Overdrawn) =>
        res.retirementPhaseResults.summary.projectedLongevity
            < RetirementYears(inputs)

\* C9 as stated: with annualWithdrawal > startingBalance * (1 + retirementReturn/100)
\* the retirement probabilityMetrics.successRate is < 1 whatever the random
\* draws, and exactly 0 when returnVolatility = 0.
C9_OverdrawnNeverSucceeds ==
    (RetirementReturned /\ Overdrawn) =>
        LET successRate == res.retirementPhaseResults.probabilityMetrics.successRate
        IN  /\ successRate.num < successRate.den
            /\ inputs.returnVolatility = 0 => successRate.num = 0

\* C9: with retirementReturn >= 0 and
\* annualWithdrawal > startingBalance * (1 + retirementReturn/100) the retirement
\* probabilityMetrics.successRate is < 1 whatever the random draws, and exactly
\* 0 when returnVolatility = 0.
C9_OverdrawnNeverSucceedsWithoutLoss ==
    (RetirementReturned /\ Overdrawn /\ RetirementExpectedReturn(inputs) >= 0) =>
        LET successRate == res.retirementPhaseResults.probabilityMetrics.successRate
        IN  /\ successRate.num < successRate.den
            /\ inputs.returnVolatility = 0 => successRate.num = 0

\* an overdrawn plan has been through the Monte Carlo trials, one of them with a
\* draw away from 0.5, and none of the trials succeeded
C9_Witness ==
    /\ RetirementReturned
    /\ Overdrawn
    /\ RetirementExpectedReturn(inputs) >= 0
    /\ inputs.returnVolatility > 0
    /\ shocks > 0
    /\ res.retirementPhaseResults.summary.startingBalance > 0
    /\ res.retirementPhaseResults.probabilityMetrics.successRate.den = simulations
    /\ res.retirementPhaseResults.probabilityMetrics.successRate.num = 0

\* C10: in the result of calculateRetirementPhase, when
\* projectedLongevity < retirementYears then yearsOfIncome = projectedLongevity,
\* and otherwise yearsOfIncome = retirementYears.
C10_YearsOfIncomeFollowsLongevity ==
    RetirementReturned =>
        LET summary == res.retirementPhaseResults.summary
        IN  IF summary.projectedLongevity < RetirementYears(inputs)
            THEN summary.yearsOfIncome = summary.projectedLongevity
            ELSE summary.yearsOfIncome = RetirementYears(inputs)

----------------------------------------------------------------------------
(* Properties of the risk analyses *)

\* C11: in every returned result the percentiles are ordered,
\* p10 <= median <= p90: lowerBound (= worstCaseBalance) <= median <= upperBound
\* in probabilityMetrics, from calculateSequenceRisk or the closed form, and
\* worstCaseBalance <= medianEndingBalance <= bestCaseBalance in the retirement
\* probabilityMetrics, from calculateRetirementSuccessRate, in the Monte Carlo
\* and in the zero-volatility branch.
C11_PercentilesOrdered ==
    Returned =>
        /\ res.probabilityMetrics.lowerBound <= res.probabilityMetrics.median
        /\ res.probabilityMetrics.worstCaseBalance <= res.probabilityMetrics.median
        /\ res.probabilityMetrics.median <= res.probabilityMetrics.upperBound
        /\ res.retirementPhaseResults.present =>
              LET pm == res.retirementPhaseResults.probabilityMetrics
              IN  /\ pm.worstCaseBalance <= pm.medianEndingBalance
                  /\ pm.medianEndingBalance <= pm.bestCaseBalance

\* a Monte Carlo analysis whose trials ended on different balances has returned
C11_Witness ==
    /\ Returned
    /\ inputs.returnVolatility > 0
    /\ res.probabilityMetrics.lowerBound < res.probabilityMetrics.median
    /\ res.probabilityMetrics.median = res.probabilityMetrics.upperBound

----------------------------------------------------------------------------
(* Accounting of contributions *)

\* C12: summary.totalContributions equals the initial investment plus the sum
\* of the monthly contribution amounts actually added to the three account
\* balances, for every account type, "mixed" with any two percentages included.
C12_ContributionsAreApplied ==
    (Returned /\ ~PlainOneYear) =>
        res.summary.totalContributions = inputs.initialInvestment + acc.applied

----------------------------------------------------------------------------
(* Inflation adjustment of the headline result *)

\* what the roundings of the divisions and multiplications by (100 + p)/100 can
\* take away from an amount that is divided and multiplied back over the horizon
RoundingSlack ==
    TimesPow(2 * inputs.investmentHorizon, inputs.inflationRate,
             inputs.investmentHorizon) + 1

\* summary.inflationAdjustedValue * (1 + inflationRate/100)^investmentHorizon
InflatedBack ==
    TimesPow(res.summary.inflationAdjustedValue, inputs.inflationRate,
             inputs.investmentHorizon)

\* C13: in every returned result, summary.inflationAdjustedValue multiplied by
\* (1 + inflationRate/100)^investmentHorizon gives summary.finalBalance again
\* (up to the rounding of the arithmetic), for every horizon and inflation rate.
C13_InflationRoundTrip ==
    Returned =>
        /\ InflatedBack <= res.summary.finalBalance
        /\ res.summary.finalBalance - InflatedBack <= RoundingSlack

\* a two-year call with inflation has returned a positive balance whose
\* inflation-adjusted value is smaller
C13_Witness ==
    /\ Returned
    /\ inputs.inflationRate > 0
    /\ inputs.investmentHorizon = 2
    /\ res.summary.finalBalance > 100000
    /\ res.summary.inflationAdjustedValue < res.summary.finalBalance

----------------------------------------------------------------------------
(* calculateRetirementPhase(inputs, startingBalance) called on its own, as the *)
(* module exports it (997)                                                    *)

\* the plain cost-free call the retirement calls are built from
RetirementCallBase ==
    [initialInvestment |-> 100000, monthlyContribution |-> 10000,
     annualContributionIncrease |-> 0, investmentHorizon |-> 1,
     expectedAnnualReturn |-> 12, returnVolatility |-> 0]

\* plans that outlast the ceiling: nothing or little is withdrawn
LastingPlans ==
    [enabled : {TRUE}, annualWithdrawal : {0, 1200},
     withdrawalStartYear : {Undefined}, withdrawalAdjustForInflation : {FALSE},
     retirementYears : 1..MaxRetirementYears, retirementReturn : {0, 1}]

\* plans that run dry within a few years
DepletingPlans ==
    [enabled : {TRUE}, annualWithdrawal : {180000, 360000},
     withdrawalStartYear : {Undefined}, withdrawalAdjustForInflation : BOOLEAN,
     retirementYears : 1..MaxRetirementYears, retirementReturn : {0, 12}]

RetirementCallInputs ==
    { MkInputs(RetirementCallBase, c, t, rp) :
        c \in {x \in CostProfiles : x.taxRate = NoTax},
        t \in {"tax-deferred", "mixed"}, rp \in LastingPlans }
    \cup
    { MkInputs([RetirementCallBase EXCEPT !.returnVolatility = v], c, t, rp) :
        v \in {0, 12}, c \in CostProfiles, t \in AccountTypes, rp \in DepletingPlans }

\* the startingBalance argument
StartingBalances == {0, 240000, 360000}

InitRetirement ==
    /\ inputs \in RetirementCallInputs
    /\ pc = "ret"
    /\ acc = AccBegin(inputs)
    /\ twin = AccBegin(inputs)
    /\ \E startingBalance \in StartingBalances :
          ret = RetBegin(inputs, startingBalance)
    /\ mc = NoTrials
    /\ res = WithRetirement(NoResults, NoRetirementResults)
    /\ shocks = 0

NextRetirement ==
    \/ RetMonth
    \/ RetStop
    \/ RetLoopDone
    \/ RetirementSuccessExact
    \/ RetirementSuccessTrial
    \/ RetirementSuccessPercentiles

SpecRetirement == InitRetirement /\ [][NextRetirement]_vars

\* an upper bound on the steps calculateRetirementPhase has yet to take: the
\* months left up to the ceiling, the end of the loop, and the success-rate call
StepsLeft ==
    IF pc = "done" THEN 0
    ELSE IF pc = "rsr" THEN 1 + (simulations - mc.sim)
    ELSE simulations + 2
         + (IF ret.exited THEN 0
            ELSE 2 + (MAX_SIMULATION_YEARS - ret.year) * 12 + (12 - ret.month))

\* before the return some step can be taken: the loop either goes on or
\* ends, the success-rate call either runs a trial or returns, and the draws a
\* step chooses from are never empty
CanStep ==
    /\ pc \in {"ret", "rsr"}
    /\ MonthDraws(inputs.returnVolatility, shocks) # {}
    /\ TrialDraws(RetirementYears(inputs), shocks) # {}

\* C14: calculateRetirementPhase terminates, having simulated at most
\* MAX_SIMULATION_YEARS = 100 years: the year never exceeds 100, every step
\* brings the return strictly nearer (StepsLeft decreases and stays >= 0) and a
\* step can be taken until the function has returned; when the balance never
\* depletes (returns exceed withdrawals) the year loop ends at the 100-year
\* ceiling.
C14_RetirementTerminates ==
    /\ [](/\ ret.year <= MAX_SIMULATION_YEARS
          /\ StepsLeft >= 0
          /\ (ret.exited /\ ~ret.moneyRunOut) => ret.year = MAX_SIMULATION_YEARS
          /\ ~Returned => CanStep)
    /\ [][StepsLeft' < StepsLeft]_vars

\* a plan whose return exceeds its withdrawals has returned from the ceiling
C14_Witness ==
    /\ RetirementReturned
    /\ inputs.retirementPhase.annualWithdrawal > 0
    /\ inputs.retirementPhase.retirementReturn > 0
    /\ ~ret.moneyRunOut
    /\ ret.year = MAX_SIMULATION_YEARS
    /\ Total(ret.bal) > ret.startingBalance

----------------------------------------------------------------------------
(* Nothing withdrawn, zero return, zero volatility *)

\* the plan withdraws nothing and neither grows nor varies
IdlePlan ==
    /\ inputs.retirementPhase.annualWithdrawal = 0
    /\ RetirementExpectedReturn(inputs) = 0
    /\ inputs.returnVolatility = 0

\* C15: when annualWithdrawal = 0 and the retirement return and returnVolatility
\* are both 0, no division by zero is performed: the returned projectedLongevity
\* is the finite 100-year sentinel, never Infinity or NaN, and the deterministic
\* success rate does not take its dividing shortcut and is a finite 0 or 1; no
\* returned call whatever carries an Infinity or NaN longevity.
C15_NoDivisionByZero ==
    RetirementReturned =>
        LET results == res.retirementPhaseResults
        IN  /\ results.summary.projectedLongevity \notin {Infinity, NotANumber}
            /\ results.summary.yearsOfIncome \notin {Infinity, NotANumber}
            /\ UsesSimpleMath(inputs) => inputs.retirementPhase.annualWithdrawal # 0
            /\ IdlePlan =>
                  /\ results.summary.projectedLongevity = 100
                  /\ ~UsesSimpleMath(inputs)
                  /\ results.probabilityMetrics.successRate.den = 1
                  /\ results.probabilityMetrics.successRate.num \in {0, 1}

\* an idle plan with money in it has returned
C15_Witness ==
    /\ RetirementReturned
    /\ IdlePlan
    /\ ret.startingBalance > 0
    /\ res.retirementPhaseResults.summary.projectedLongevity = 100
    /\ res.retirementPhaseResults.summary.finalBalance = ret.startingBalance

----------------------------------------------------------------------------
(* Zero volatility: the outcome does not depend on the random source *)

\* the month loop of calculateMonthlyCompoundInterest is about to run a month
InAccumulationMonth == pc = "acc"

\* the month loop of calculateRetirementPhase is about to run a month
InRetirementMonth == pc = "ret" /\ ~ret.exited /\ ~RetYearStops(ret)

\* whatever Math.random() returns, the month about to run ends with the same
\* locals, and no Monte Carlo trial is ever run: by induction two runs on the
\* same inputs pass through the same states and return the same outputs
SameWhateverTheDraws ==
    /\ InAccumulationMonth =>
          \A u \in DrawSet, extreme \in BOOLEAN :
             AccMonthStep(inputs, acc, u, extreme)
                = AccMonthStep(inputs, acc, Neutral, FALSE)
    /\ InRetirementMonth =>
          \A u \in DrawSet :
             RetMonthStep(inputs, ret, u) = RetMonthStep(inputs, ret, Neutral)
    /\ mc = NoTrials
    /\ shocks = 0

\* C16 as stated: with returnVolatility = 0 every output is the same for two
\* runs on identical inputs whatever the random source returns, the return of
\* every month (of the accumulation and of the retirement loop) being the
\* expected monthly rate.
C16_ZeroVolatilityEveryMonthExpectedRate ==
    inputs.returnVolatility = 0 =>
        /\ SameWhateverTheDraws
        /\ InAccumulationMonth =>
              \A u \in DrawSet, extreme \in BOOLEAN :
                 MonthlyReturn(inputs, u, extreme)
                    = MonthlyRate(inputs.expectedAnnualReturn)
        /\ InRetirementMonth =>
              \A u \in DrawSet :
                 RetirementMonthlyReturn(inputs, ret, u)
                    = MonthlyRate(RetirementExpectedReturn(inputs))

\* C16, amended: with returnVolatility = 0 every output is the same for two
\* runs on identical inputs whatever the random source returns; the return of
\* an accumulation month is the expected monthly rate, the return of a
\* retirement month is 0 in the first retirement year (year 0) and the
\* retirement monthly rate in every later year.
C16_ZeroVolatilityDeterministic ==
    inputs.returnVolatility = 0 =>
        /\ SameWhateverTheDraws
        /\ InAccumulationMonth =>
              \A u \in DrawSet, extreme \in BOOLEAN :
                 MonthlyReturn(inputs, u, extreme)
                    = MonthlyRate(inputs.expectedAnnualReturn)
        /\ InRetirementMonth =>
              \A u \in DrawSet :
                 RetirementMonthlyReturn(inputs, ret, u)
                    = IF ret.year = 0 THEN 0
                      ELSE MonthlyRate(RetirementExpectedReturn(inputs))

\* a zero-volatility call that ran the month loop has returned retirement
\* results whose loop went past its first year, drawing in every month
C16_Witness ==
    /\ RetirementReturned
    /\ inputs.returnVolatility = 0
    /\ ~IsPredictable(inputs)
    /\ RetirementExpectedReturn(inputs) # 0
    /\ ret.year > 1

----------------------------------------------------------------------------
(* After a shortfall *)

\* a withdrawal of the accumulation loop fell short in an earlier year, which
\* has been closed
AccumulationYearAfterShortfall ==
    acc.depletedYear # Undefined /\ acc.year > acc.depletedYear

\* C17: once a monthly withdrawal has left a shortfall, no month of a later
\* year is simulated, in the withdrawal years of the year loop of
\* calculateMonthlyCompoundInterest (after the year of the shortfall is closed
\* its locals no longer change) and in calculateRetirementPhase (the year no
\* longer advances, and after that year is closed the balances no longer
\* change).
C17_NoYearAfterShortfall ==
    [][/\ AccumulationYearAfterShortfall => acc' = acc
       /\ ret.moneyRunOut =>
             /\ ret'.year = ret.year
             /\ ret.exited => ret'.bal = ret.bal /\ ret'.month = ret.month]_vars

\* the part of C17 about calculateRetirementPhase
RetirementStopsAfterShortfall ==
    [][ret.moneyRunOut =>
          /\ ret'.year = ret.year
          /\ ret.exited => ret'.bal = ret.bal /\ ret'.month = ret.month]_vars

----------------------------------------------------------------------------
(* Withdrawals in the trials of calculateSequenceRisk *)

\* withdrawals start in year 0 and the first one is no less than the initial
\* investment: a trial that subtracts it is exhausted in its first year
ExhaustedAtOnce ==
    /\ inputs.retirementPhase.enabled
    /\ WithdrawalStartYear(inputs) = 0
    /\ inputs.retirementPhase.annualWithdrawal >= inputs.initialInvestment

\* C18: with the retirement phase enabled, each stochastic trial of
\* calculateSequenceRisk subtracts the annual withdrawal in every simulated year
\* at or after the withdrawal-start year and is flagged when its balance is
\* <= 0 after a withdrawal, so the successRate, the fraction of trials not
\* flagged, is below 1 when the withdrawals exhaust a trial before the horizon
\* ends: here every trial is exhausted by its first withdrawal.
C18_TrialsWithdrawAndFlag ==
    (Returned /\ inputs.returnVolatility # 0 /\ ExhaustedAtOnce) =>
        res.probabilityMetrics.successRate.num < res.probabilityMetrics.successRate.den

----------------------------------------------------------------------------
(* The order of the returns a trial replays *)

\* a trial of calculateSequenceRisk is about to run with the retirement phase
\* enabled
BeforeWithdrawalPhaseTrial ==
    /\ pc = "seq"
    /\ inputs.returnVolatility # 0
    /\ inputs.retirementPhase.enabled
    /\ mc.sim < simulations

\* the sequences a trial may replay once `sampled` has been drawn
Replayable(sampled) ==
    { ShuffledReturns(inputs, TRUE, sampled, js) :
        js \in ShuffleChoices(Len(WithdrawalReturns(inputs, sampled))) }

\* the orderings of `sampled` that keep the first s returns in place
Reorderings(sampled, s) ==
    IF s >= Len(sampled) THEN {sampled}
    ELSE { [k \in 1..Len(sampled) |-> IF k <= s THEN sampled[k] ELSE sampled[p[k]]] :
             p \in Permutations((s + 1)..Len(sampled)) }

\* C19: in each trial of the withdrawal-phase analysis with withdrawal-start
\* year s, the replayed sequence of annual returns is a permutation of the
\* sampled one that keeps every return at an index < s in place, and every
\* ordering of the returns at indices >= s is a possible outcome of the
\* Fisher-Yates pass.
C19_WithdrawalReturnsShuffled ==
    BeforeWithdrawalPhaseTrial =>
        \A draws \in TrialDraws(inputs.investmentHorizon, shocks) :
            Replayable(SampledReturns(inputs, draws))
                = Reorderings(SampledReturns(inputs, draws),
                              WithdrawalStartYear(inputs))

----------------------------------------------------------------------------
(* The percentiles reported at zero volatility *)

\* median, lower and upper bound form the band of 5% around the median
FivePercentBand(median, lowerBound, upperBound) ==
    /\ lowerBound = Pct(median, 95)
    /\ upperBound = Pct(median, 105)

\* the bands of the probability metrics and, when present, of the retirement
\* metrics of the returned results, no trial having been run
BandsReported ==
    /\ mc = NoTrials
    /\ FivePercentBand(res.probabilityMetrics.median,
                       res.probabilityMetrics.lowerBound,
                       res.probabilityMetrics.upperBound)
    /\ res.probabilityMetrics.worstCaseBalance = res.probabilityMetrics.lowerBound
    /\ res.retirementPhaseResults.present =>
          FivePercentBand(res.retirementPhaseResults.probabilityMetrics.medianEndingBalance,
                          res.retirementPhaseResults.probabilityMetrics.worstCaseBalance,
                          res.retirementPhaseResults.probabilityMetrics.bestCaseBalance)

\* C20: whenever returnVolatility = 0 no Monte Carlo trial is run and the
\* reported percentiles are median = the single exact path value (the monthly
\* compounding of calculateSequenceRisk, or the closed-form final balance on the
\* short-circuit), p10 = 0.95 * median and p90 = 1.05 * median, for the
\* probability metrics of every zero-volatility call, those taking the
\* closed-form short-circuit included, and for the retirement metrics.
C20_ZeroVolatilityBand ==
    (Returned /\ inputs.returnVolatility = 0) =>
        /\ BandsReported
        /\ res.probabilityMetrics.median =
              IF IsPredictable(inputs) THEN res.summary.finalBalance
              ELSE SequenceMonths(inputs, 1, inputs.initialInvestment)

\* the part of C20 about the calls that run the month loop
ZeroVolatilityBandInLoop ==
    (Returned /\ inputs.returnVolatility = 0 /\ ~IsPredictable(inputs)) =>
        /\ BandsReported
        /\ res.probabilityMetrics.median =
              SequenceMonths(inputs, 1, inputs.initialInvestment)

----------------------------------------------------------------------------
(* The first retirement year *)

\* this step runs a month of retirement year 0
YearZeroMonth ==
    /\ pc = "ret" /\ ~ret.exited /\ ret.year = 0
    /\ ret'.month # ret.month

\* the balances a month's earnings and fees are computed from: the ones left
\* by the month's withdrawal
AfterWithdrawal(before, wd) == IF wd.valid THEN wd.after ELSE before

\* C21: in calculateRetirementPhase year 0 applies no growth: every month's
\* return is 0 whatever is drawn, the year's earnings and dividend taxes stay
\* 0, each balance changes only by the withdrawal and the fee, and the year-0
\* row has earnings = 0 and no tax other than the withdrawal taxes.
C21_YearZeroNoGrowth ==
    [][YearZeroMonth =>
          LET left == AfterWithdrawal(ret.bal, ret'.wd)
              fee == ret'.yearFees - (IF ret.month = 1 THEN 0 ELSE ret.yearFees)
          IN  /\ \A u \in DrawSet : RetirementMonthlyReturn(inputs, ret, u) = 0
              /\ ret'.yearEarnings = 0
              /\ ret'.yearTaxes = 0
              /\ ret'.totalGrowth = 0
              /\ ret'.bal.td <= left.td /\ ret'.bal.tf <= left.tf
              /\ ret'.bal.tx <= left.tx
              /\ Total(left) - Total(ret'.bal) = fee
              /\ \A k \in DOMAIN ret'.yearByYearDetails :
                    ret'.yearByYearDetails[k].year = 0 =>
                        /\ ret'.yearByYearDetails[k].earnings = 0
                        /\ ret'.yearByYearDetails[k].taxes
                              = ret'.yearByYearDetails[k].withdrawalTaxes]_vars

\* a taxable plan with a return, fees and a dividend tax has gone through year
\* 0, withdrawing and paying fees, and has earned in a later year
C21_Witness ==
    /\ pc = "ret"
    /\ inputs.accountType = "taxable"
    /\ inputs.taxRate.dividends > 0
    /\ RetirementExpectedReturn(inputs) > 0
    /\ ret.year >= 1
    /\ ret.yearEarnings > 0
    /\ Len(ret.yearByYearDetails) >= 1
    /\ ret.yearByYearDetails[1].fees > 0
    /\ ret.yearByYearDetails[1].withdrawals > 0
    /\ ret.yearByYearDetails[1].earnings = 0

----------------------------------------------------------------------------
(* The inflation-adjusted value of an accumulation year *)

\* C22: each row emitted by the accumulation year loop for the 0-based year y
\* reports inflationAdjustedValue = endingBalance / (1 + inflationRate/100)^(y+1).
C22_RowDiscountedByYearPlusOne ==
    \A k \in DOMAIN acc.yearByYearDetails :
        LET row == acc.yearByYearDetails[k]
        IN  row.inflationAdjustedValue
                = OverPow(row.endingBalance, inputs.inflationRate, row.year + 1)

----------------------------------------------------------------------------
(* The tax on a withdrawal *)

\* the tax the amounts debited from the three balances call for: half of what
\* left the taxable balance at the capital gains rate, all of what left the
\* tax-deferred balance at the income rate, nothing for the tax-free balance
TaxOnDebits(wd) ==
    Pct(MulDiv(wd.before.tx - wd.after.tx, 5, 10), inputs.taxRate.capitalGains)
    + Pct(wd.before.td - wd.after.td, inputs.taxRate.income)

\* the withdrawal's own taxes and debits agree
TaxedOnDebits(wd) ==
    wd.valid =>
        /\ wd.capitalGainsTax + wd.incomeTax = TaxOnDebits(wd)
        /\ wd.drawnTaxable = wd.before.tx - wd.after.tx
        /\ wd.drawnTaxFree = wd.before.tf - wd.after.tf
        /\ wd.drawnTaxDeferred = wd.before.td - wd.after.td

\* this step runs a month of one of the two loops
MonthRuns ==
    \/ pc = "acc" /\ acc' # acc
    \/ pc = "ret" /\ ret'.month # ret.month

\* C23: for every monthly withdrawal, of the accumulation loop and of the
\* retirement loop, the withdrawal tax recorded is 0.5 * (amount drawn from
\* taxable) * capitalGains/100 + (amount drawn from tax-deferred) * income/100,
\* nothing being charged on the amount drawn from tax-free; the amounts are the
\* ones actually debited after clamping, not the requested need, and the tax is
\* what the year's withdrawal taxes and totalTaxesPaid grow by (with the
\* month's dividend tax).
C23_WithdrawalTaxOnAmountsDrawn ==
    [][MonthRuns =>
          /\ TaxedOnDebits(acc'.wd) /\ TaxedOnDebits(ret'.wd)
          /\ pc = "acc" /\ acc'.wd.valid =>
                /\ acc'.yearWithdrawalTaxes
                      = (IF acc.month = 1 THEN 0 ELSE acc.yearWithdrawalTaxes)
                        + TaxOnDebits(acc'.wd)
                /\ acc'.totalTaxesPaid - acc.totalTaxesPaid
                      = TaxOnDebits(acc'.wd)
                        + acc'.yearTaxes - (IF acc.month = 1 THEN 0 ELSE acc.yearTaxes)
          /\ pc = "ret" /\ ret'.wd.valid =>
                /\ ret'.yearWithdrawalTaxes
                      = (IF ret.month = 1 THEN 0 ELSE ret.yearWithdrawalTaxes)
                        + TaxOnDebits(ret'.wd)
                /\ ret'.totalTaxesPaid - ret.totalTaxesPaid
                      = TaxOnDebits(ret'.wd)
                        + ret'.yearTaxes - (IF ret.month = 1 THEN 0 ELSE ret.yearTaxes)]_vars

\* a retirement withdrawal has been clamped to what the tax-deferred balance
\* held, and its income tax is that of the amount drawn, below that of the need
C23_Witness ==
    /\ pc = "ret"
    /\ ret.wd.valid
    /\ ret.wd.remainingWithdrawal > 0
    /\ ret.wd.drawnTaxDeferred > 0
    /\ ret.wd.incomeTax > 0
    /\ ret.wd.incomeTax < Pct(ret.wd.need, inputs.taxRate.income)

----------------------------------------------------------------------------
(* One month's earnings, fee and dividend tax *)

\* b * monthlyReturn
EarningsOn(b, monthlyReturn) == MulDiv(b, monthlyReturn, RateDen)

\* b * (expenseRatio/12 + advisoryFee/12) / 100
FeeOn(b) ==
    MulDiv(b, MonthlyRate(inputs.fees.expenseRatio)
              + MonthlyRate(inputs.fees.advisoryFee), RateDen)

\* 0.4 * earnings * dividends/100 on a taxable balance b that is still > 0
\* once its fee is taken
DividendTaxOn(b, monthlyReturn) ==
    IF b - FeeOn(b) > 0
    THEN Pct(MulDiv(EarningsOn(b, monthlyReturn), 4, 10), inputs.taxRate.dividends)
    ELSE 0

\* the month moved the balances b to `after` as stated, and the year's earnings,
\* fees and dividend taxes grew by the same amounts
GrownAsStated(b, monthlyReturn, after, earnings, fees, taxes) ==
    /\ after.td = b.td + EarningsOn(b.td, monthlyReturn) - FeeOn(b.td)
    /\ after.tf = b.tf + EarningsOn(b.tf, monthlyReturn) - FeeOn(b.tf)
    /\ after.tx = b.tx + EarningsOn(b.tx, monthlyReturn) - FeeOn(b.tx)
                      - DividendTaxOn(b.tx, monthlyReturn)
    /\ earnings = EarningsOn(b.td, monthlyReturn) + EarningsOn(b.tf, monthlyReturn)
                  + EarningsOn(b.tx, monthlyReturn)
    /\ fees = FeeOn(b.td) + FeeOn(b.tf) + FeeOn(b.tx)
    /\ taxes = DividendTaxOn(b.tx, monthlyReturn)

\* the balances of an accumulation month after its contribution or withdrawal
AfterContributionOrWithdrawal(a, wd) ==
    IF IsWithdrawalPhase(inputs, a.year) THEN AfterWithdrawal(a.bal, wd)
    ELSE LET split == ContributionSplit(inputs.accountType, inputs.accountAllocation,
                          TimesPow(inputs.monthlyContribution,
                                   inputs.annualContributionIncrease, a.year))
         IN  [td |-> a.bal.td + split.td, tf |-> a.bal.tf + split.tf,
              tx |-> a.bal.tx + split.tx]

----------------------------------------------------------------------------
(* The balances an account type may hold *)

\* the balances are held where the account type puts them
AllocationRespected(bal) ==
    /\ inputs.accountType = "taxable" => bal.td = 0 /\ bal.tf = 0
    /\ inputs.accountType = "tax-deferred" => bal.tf = 0 /\ bal.tx = 0
    /\ inputs.accountType = "tax-free" => bal.td = 0 /\ bal.tx = 0
    /\ inputs.accountType = "mixed" => bal.tx = 0

\* C25: at every month of the accumulation and retirement simulations the
\* balances respect the account type: taxable holds nothing tax-deferred or
\* tax-free, tax-deferred nothing tax-free or taxable, tax-free nothing
\* tax-deferred or taxable, and mixed nothing taxable.
C25_BalancesRespectAccountType ==
    /\ pc \in {"acc", "seq"} => AllocationRespected(acc.bal)
    /\ pc \in {"ret", "rsr"} => AllocationRespected(ret.bal)

\* the part of C25 about the account types other than taxable
OtherTypesRespectAllocation ==
    inputs.accountType # "taxable" => C25_BalancesRespectAccountType

----------------------------------------------------------------------------
(* The withdrawals recorded *)

\* what a month's withdrawal debited from the three balances
Debited(wd) ==
    IF wd.valid THEN Total(wd.before) - Total(wd.after) ELSE 0

\* no row and no total reports a negative withdrawal
NoNegativeWithdrawals ==
    /\ \A k \in DOMAIN acc.yearByYearDetails : acc.yearByYearDetails[k].withdrawals >= 0
    /\ \A k \in DOMAIN ret.yearByYearDetails : ret.yearByYearDetails[k].withdrawals >= 0
    /\ acc.totalWithdrawals >= 0
    /\ ret.totalWithdrawals >= 0

\* C26: the withdrawals recorded for each year, and the total withdrawals,
\* equal the amount actually debited from the three balances in the period
\* (each month adds to the year's withdrawals exactly what it debited) and are
\* never negative, in and after the month in which the portfolio is exhausted
\* included.
C26_WithdrawalsAreDebits ==
    /\ []NoNegativeWithdrawals
    /\ [][MonthRuns =>
             /\ pc = "acc" =>
                   acc'.yearWithdrawals
                      = (IF acc.month = 1 THEN 0 ELSE acc.yearWithdrawals)
                        + Debited(acc'.wd)
             /\ pc = "ret" =>
                   ret'.yearWithdrawals
                      = (IF ret.month = 1 THEN 0 ELSE ret.yearWithdrawals)
                        + Debited(ret'.wd)]_vars

\* the part of C26 about the months whose withdrawal is met in full
FullWithdrawalsAreDebits ==
    [][MonthRuns =>
          /\ (pc = "acc" /\ acc'.wd.remainingWithdrawal = 0) =>
                acc'.yearWithdrawals
                   = (IF acc.month = 1 THEN 0 ELSE acc.yearWithdrawals)
                     + Debited(acc'.wd)
          /\ (pc = "ret" /\ ret'.wd.remainingWithdrawal = 0) =>
                ret'.yearWithdrawals
                   = (IF ret.month = 1 THEN 0 ELSE ret.yearWithdrawals)
                     + Debited(ret'.wd)]_vars

----------------------------------------------------------------------------
(* The range of the projected longevity *)

\* C27: summary.projectedLongevity returned by calculateRetirementPhase lies
\* in 0..100, the simulation ceiling, for every input, the zero-return,
\* zero-volatility case computed by division included.
C27_LongevityWithinCeiling ==
    RetirementReturned =>
        /\ res.retirementPhaseResults.summary.projectedLongevity >= 0
        /\ res.retirementPhaseResults.summary.projectedLongevity
              <= MAX_SIMULATION_YEARS

\* the part of C27 about the plans whose longevity comes from the year loop
SimulatedLongevityWithinCeiling ==
    (RetirementReturned
        /\ ~(RetirementExpectedReturn(inputs) = 0 /\ inputs.returnVolatility = 0)) =>
        /\ res.retirementPhaseResults.summary.projectedLongevity >= 0
        /\ res.retirementPhaseResults.summary.projectedLongevity
              <= MAX_SIMULATION_YEARS

----------------------------------------------------------------------------
(* The headline retirement path and the deterministic success rate *)

\* the success rate the zero-volatility branch gives with
\* withdrawalAdjustForInflation set to `adjust`
SuccessWith(adjust) ==
    RetirementSuccessDeterministic(
        [inputs EXCEPT !.retirementPhase.withdrawalAdjustForInflation = adjust],
        ret.startingBalance, RetirementYears(inputs)).successRate

\* successRate is 1 exactly when projectedLongevity >= retirementYears, else 0
SuccessFollowsLongevity ==
    LET results == res.retirementPhaseResults
    IN  /\ results.probabilityMetrics.successRate.den = 1
        /\ results.probabilityMetrics.successRate.num
              = IF results.summary.projectedLongevity >= RetirementYears(inputs)
                THEN 1 ELSE 0

\* C28: with returnVolatility = 0 the headline retirement path and the
\* deterministic success rate agree: probabilityMetrics.successRate is 1
\* exactly when summary.projectedLongevity >= retirementYears and 0 otherwise,
\* and with inflationRate = 0 the success rate does not depend on
\* withdrawalAdjustForInflation.
C28_SuccessRateAgreesWithLongevity ==
    (RetirementReturned /\ inputs.returnVolatility = 0) =>
        /\ SuccessFollowsLongevity
        /\ inputs.inflationRate = 0 => SuccessWith(TRUE) = SuccessWith(FALSE)

\* the second half of C28 alone
SuccessWhateverTheAdjustment ==
    (RetirementReturned /\ inputs.returnVolatility = 0 /\ inputs.inflationRate = 0) =>
        SuccessWith(TRUE) = SuccessWith(FALSE)

----------------------------------------------------------------------------
(* Dividend tax and the running total of taxes *)

\* C29: the dividend tax charged in a month is never negative, so
\* totalTaxesPaid never decreases from one month to the next over the whole
\* simulation, months with a negative sampled return included.
C29_TaxesNeverDecrease ==
    [][MonthRuns =>
          /\ pc = "acc" =>
                /\ acc'.yearTaxes >= (IF acc.month = 1 THEN 0 ELSE acc.yearTaxes)
                /\ acc'.totalTaxesPaid >= acc.totalTaxesPaid
          /\ pc = "ret" =>
                /\ ret'.yearTaxes >= (IF ret.month = 1 THEN 0 ELSE ret.yearTaxes)
                /\ ret'.totalTaxesPaid >= ret.totalTaxesPaid]_vars

\* the part of C29 about the months whose return is not negative
TaxesNeverDecreaseWithoutLoss ==
    [][(MonthRuns /\ inputs.returnVolatility = 0
            /\ RetirementExpectedReturn(inputs) >= 0) =>
          /\ pc = "acc" => acc'.totalTaxesPaid >= acc.totalTaxesPaid
          /\ pc = "ret" => ret'.totalTaxesPaid >= ret.totalTaxesPaid]_vars

----------------------------------------------------------------------------
(* Continuity of the year rows *)

\* each row starts where the row before it ended, and the first row starts
\* with the given amount
Continuous(rows, opening) ==
    /\ rows # << >> => rows[1].startingBalance = opening
    /\ \A k \in 1..(Len(rows) - 1) :
          rows[k + 1].startingBalance = rows[k].endingBalance

\* the sum of the three balances a simulation of `amount` starts with
OpeningTotal(amount) ==
    Total(InitialBalances(inputs.accountType, inputs.accountAllocation, amount))

\* C30: in the accumulation and in the retirement year-by-year list the
\* startingBalance of the row for year k+1 equals the endingBalance of the row
\* for year k, and the first row's startingBalance equals the sum of the three
\* account balances held at the start of the simulation.
C30_RowsContinuous ==
    /\ Continuous(acc.yearByYearDetails, OpeningTotal(inputs.initialInvestment))
    /\ Continuous(ret.yearByYearDetails, OpeningTotal(ret.startingBalance))

\* the part of C30 about the accumulation list
AccumulationRowsContinuous ==
    Continuous(acc.yearByYearDetails, OpeningTotal(inputs.initialInvestment))

\* the part of C30 about the retirement list of the accounts that are not
\* taxable
OtherRetirementRowsContinuous ==
    inputs.accountType # "taxable" =>
        Continuous(ret.yearByYearDetails, OpeningTotal(ret.startingBalance))

====
